---- MODULE Spec2Model ----
(***************************************************************************)
(* Model of the source-map engine bundled in src/unnamed/part_000          *)
(* (source-list-map + webpack-sources): base64 VLQ codec, fragment nodes,  *)
(* MappingsContext, SourceListMap, fromStringWithSourceMap, ReplaceSource, *)
(* ConcatSource and CachedSource.                                          *)
(*                                                                         *)
(* Texts (generated code, mappings strings) are sequences of one-character *)
(* strings, so that split / indexOf / substr are computed as the code      *)
(* computes them.                                                          *)
(***************************************************************************)
EXTENDS Integers, Sequences, FiniteSets, TLC

(***************************************************************************)
(* Bounds of the model                                                     *)
(***************************************************************************)
MaxVlq == 1024
MaxTextLen == 3
MaxGroups == 2
MaxFrags == 3
MaxRepl == 2
MaxAdds == 3
MaxAsk == 2
MaxNodeLen == 3

MaxOwnNodes == 3

MaxOwnRefs == 4

(***************************************************************************)
(* State.  Each specification below drives one group of variables and      *)
(* leaves the other groups at their idle values.                           *)
(***************************************************************************)
VARIABLES vlqPc, vlqN, vlqText, vlqOut

VARIABLES psPc, psText, psTable, psParsed, psString, psOut

VARIABLES mgPc, mgA, mgB, mgMerged, mgPairOut, mgMergedOut

VARIABLES idPc, idList, idOut1, idParsed, idOut2

VARIABLES rsText, rsReplacements, rsIsSorted, rsOut, rsBase, rsMapOut

VARIABLES ccChildren, ccIsOptimized, ccAdded, ccOut

VARIABLES csSource, csCachedSource, csCachedBuffer, csCachedSize, csCachedMaps,
          csComputed, csAsked, csOut

VARIABLES pxSource, pxPrefix, pxOut, pxMapOut

VARIABLES szList, szOut

VARIABLES rlConfig, rlOut

VARIABLES fgA, fgLast

VARIABLES owHeap, owChildren, owSpliced, owLast

VARIABLES prPc, prText, prMap, prParsed

VARIABLES ssDb, ssLast

VARIABLES rqResolver, rqLast

vlqVars == <<vlqPc, vlqN, vlqText, vlqOut>>

psVars == <<psPc, psText, psTable, psParsed, psString, psOut>>

mgVars == <<mgPc, mgA, mgB, mgMerged, mgPairOut, mgMergedOut>>

idVars == <<idPc, idList, idOut1, idParsed, idOut2>>

rsVars == <<rsText, rsReplacements, rsIsSorted, rsOut, rsBase, rsMapOut>>

ccVars == <<ccChildren, ccIsOptimized, ccAdded, ccOut>>

csVars == <<csSource, csCachedSource, csCachedBuffer, csCachedSize, csCachedMaps,
           csComputed, csAsked, csOut>>

pxVars == <<pxSource, pxPrefix, pxOut, pxMapOut>>

szVars == <<szList, szOut>>

rlVars == <<rlConfig, rlOut>>

fgVars == <<fgA, fgLast>>

owVars == <<owHeap, owChildren, owSpliced, owLast>>

prVars == <<prPc, prText, prMap, prParsed>>

ssVars == <<ssDb, ssLast>>

rqVars == <<rqResolver, rqLast>>

vars == <<vlqVars, psVars, mgVars, idVars, rsVars, ccVars, csVars, pxVars, szVars, rlVars, fgVars, owVars, prVars, ssVars, rqVars>>

notVlq == <<psVars, mgVars, idVars, rsVars, ccVars, csVars, pxVars, szVars, rlVars, fgVars, owVars, prVars, ssVars, rqVars>>

notPs == <<vlqVars, mgVars, idVars, rsVars, ccVars, csVars, pxVars, szVars, rlVars, fgVars, owVars, prVars, ssVars, rqVars>>

notMg == <<vlqVars, psVars, idVars, rsVars, ccVars, csVars, pxVars, szVars, rlVars, fgVars, owVars, prVars, ssVars, rqVars>>

notId == <<vlqVars, psVars, mgVars, rsVars, ccVars, csVars, pxVars, szVars, rlVars, fgVars, owVars, prVars, ssVars, rqVars>>

notRs == <<vlqVars, psVars, mgVars, idVars, ccVars, csVars, pxVars, szVars, rlVars, fgVars, owVars, prVars, ssVars, rqVars>>

notCc == <<vlqVars, psVars, mgVars, idVars, rsVars, csVars, pxVars, szVars, rlVars, fgVars, owVars, prVars, ssVars, rqVars>>

notCs == <<vlqVars, psVars, mgVars, idVars, rsVars, ccVars, pxVars, szVars, rlVars, fgVars, owVars, prVars, ssVars, rqVars>>

notPx == <<vlqVars, psVars, mgVars, idVars, rsVars, ccVars, csVars, szVars, rlVars, fgVars, owVars, prVars, ssVars, rqVars>>

notSz == <<vlqVars, psVars, mgVars, idVars, rsVars, ccVars, csVars, pxVars, rlVars, fgVars, owVars, prVars, ssVars, rqVars>>

notRl == <<vlqVars, psVars, mgVars, idVars, rsVars, ccVars, csVars, pxVars, szVars, fgVars, owVars, prVars, ssVars, rqVars>>

notFg == <<vlqVars, psVars, mgVars, idVars, rsVars, ccVars, csVars, pxVars, szVars, rlVars, owVars, prVars, ssVars, rqVars>>

notOw == <<vlqVars, psVars, mgVars, idVars, rsVars, ccVars, csVars, pxVars, szVars, rlVars, fgVars, prVars, ssVars, rqVars>>

notPr == <<vlqVars, psVars, mgVars, idVars, rsVars, ccVars, csVars, pxVars, szVars, rlVars, fgVars, owVars, ssVars, rqVars>>

notSs == <<vlqVars, psVars, mgVars, idVars, rsVars, ccVars, csVars, pxVars, szVars, rlVars, fgVars, owVars, prVars, rqVars>>

notRq == <<vlqVars, psVars, mgVars, idVars, rsVars, ccVars, csVars, pxVars, szVars, rlVars, fgVars, owVars, prVars, ssVars>>

(***************************************************************************)
(* Generic text helpers                                                    *)
(***************************************************************************)
NL == "\n"

RECURSIVE Flatten(_)
Flatten(ss) == IF ss = <<>> THEN <<>> ELSE Head(ss) \o Flatten(Tail(ss))

\* e.substr(from) with a 0-based index, clamped like String.prototype.substr
SubstrFrom(s, from) ==
  IF from >= Len(s) THEN <<>> ELSE SubSeq(s, (IF from < 0 THEN 0 ELSE from) + 1, Len(s))

\* e.substr(0, n)
SubstrTo(s, n) ==
  IF n <= 0 THEN <<>> ELSE SubSeq(s, 1, IF n > Len(s) THEN Len(s) ELSE n)

\* all sequences over S of length 0..n
SeqsUpTo(S, n) == UNION {[1..k -> S] : k \in 0..n}

(***************************************************************************)
(* module 437: getNumberOfLines / getUnfinishedLine                        *)
(***************************************************************************)
getNumberOfLines(e) == Cardinality({i \in 1..Len(e) : e[i] = NL})

\* 1-based index of the last newline, 0 when there is none
LastIndexOfNL(e) ==
  IF \E i \in 1..Len(e) : e[i] = NL
  THEN CHOOSE i \in 1..Len(e) : e[i] = NL /\ \A j \in (i+1)..Len(e) : e[j] # NL
  ELSE 0

getUnfinishedLine(e) == Len(e) - LastIndexOfNL(e)

(***************************************************************************)
(* module 207: base64 VLQ                                                  *)
(***************************************************************************)
B64 == << "A","B","C","D","E","F","G","H","I","J","K","L","M","N","O","P",
          "Q","R","S","T","U","V","W","X","Y","Z","a","b","c","d","e","f",
          "g","h","i","j","k","l","m","n","o","p","q","r","s","t","u","v",
          "w","x","y","z","0","1","2","3","4","5","6","7","8","9","+","/" >>

VLQ_BASE_SHIFT == 5
VLQ_BASE == 32
VLQ_BASE_MASK == 31
VLQ_CONTINUATION_BIT == 32
base64_encode(e) == B64[e + 1]

IsBase64Digit(c) == \E i \in 1..64 : B64[i] = c

base64_decode(c) == (CHOOSE i \in 1..64 : B64[i] = c) - 1

\* (-e<<1)+1 / (e<<1): the values of the model stay far below 2^31, where
\* the 32-bit shift is plain doubling
toVLQSigned(e) == IF e < 0 THEN ((-e) * 2) + 1 ELSE e * 2

\* mutant: the sign bit is shifted out but never applied
fromVLQSigned_dropsSign(e) == e \div 2

fromVLQSigned(e) == IF e % 2 = 1 THEN -(e \div 2) ELSE e \div 2

\* the do/while loop of base64VLQ_encode on the remaining value n
RECURSIVE VlqEncodeLoop(_)
VlqEncodeLoop(n) ==
  LET digit == n % VLQ_BASE
      rest  == n \div VLQ_BASE
  IN IF rest > 0
     THEN <<base64_encode(digit + VLQ_CONTINUATION_BIT)>> \o VlqEncodeLoop(rest)
     ELSE <<base64_encode(digit)>>

base64VLQ_encode(e) == VlqEncodeLoop(toVLQSigned(e))

\* the do/while loop of base64VLQ_decode: s is the 0-based cursor, u the
\* accumulated value, c the shift expressed as a multiplier (2^shift)
RECURSIVE VlqDecodeLoop(_, _, _, _)
VlqDecodeLoop(e, s, u, c) ==
  IF s >= Len(e) THEN [ok |-> FALSE, value |-> 0, rest |-> <<>>]
  ELSE IF ~IsBase64Digit(e[s + 1]) THEN [ok |-> FALSE, value |-> 0, rest |-> <<>>]
  ELSE LET a == base64_decode(e[s + 1])
           h == a >= VLQ_CONTINUATION_BIT
           d == a % VLQ_BASE
           u2 == u + d * c
       IN IF h THEN VlqDecodeLoop(e, s + 1, u2, c * VLQ_BASE)
          ELSE [ok |-> TRUE, value |-> fromVLQSigned(u2), rest |-> SubstrFrom(e, s + 1)]

base64VLQ_decode(e) == VlqDecodeLoop(e, 0, 0, 1)

(***************************************************************************)
(* Fragment nodes (modules 939, 57, 478).  A node is a record; the fields  *)
(* a CodeNode does not have are kept at fixed values.                      *)
(* source / originalSource hold a JS string, or "undefined" / "null".      *)
(***************************************************************************)
EndsWithNL(e) == Len(e) > 0 /\ e[Len(e)] = NL

IsJsString(v) == v \notin {"undefined", "null"}

CodeNode(e) ==
  [kind |-> "CodeNode", generatedCode |-> e, source |-> "undefined",
   originalSource |-> "undefined", line |-> 0,
   numberOfLines |-> 0, endsWithNewLine |-> FALSE]

\* new SingleLineNode(e, t, s, n): line = n || 1
SingleLineNode(e, t, s, n) ==
  [kind |-> "SingleLineNode", generatedCode |-> e, source |-> t,
   originalSource |-> s, line |-> IF n = 0 THEN 1 ELSE n,
   numberOfLines |-> getNumberOfLines(e), endsWithNewLine |-> EndsWithNL(e)]

\* new SourceNode(e, t, s, n): startingLine = n || 1 (kept in field line)
SourceNode(e, t, s, n) ==
  [kind |-> "SourceNode", generatedCode |-> e, source |-> t,
   originalSource |-> s, line |-> IF n = 0 THEN 1 ELSE n,
   numberOfLines |-> getNumberOfLines(e), endsWithNewLine |-> EndsWithNL(e)]

\* CodeNode.addGeneratedCode / SourceNode.addGeneratedCode
addGeneratedCode(node, e) ==
  IF node.kind = "CodeNode"
  THEN [node EXCEPT !.generatedCode = @ \o e]
  ELSE [node EXCEPT !.generatedCode = @ \o e,
                    !.numberOfLines = @ + getNumberOfLines(e),
                    !.endsWithNewLine = EndsWithNL(e)]

(***************************************************************************)
(* merge: the result is [ok, node]; ok = FALSE stands for "return false".  *)
(* When the code returns this, node is the mutated receiver.               *)
(***************************************************************************)
NotMerged(node) == [ok |-> FALSE, node |-> node]

\* the receiver after  generatedCode += e.generatedCode; _numberOfLines +=
\* e._numberOfLines; _endsWithNewLine = e._endsWithNewLine
Absorb(this, e) ==
  [this EXCEPT !.generatedCode = @ \o e.generatedCode,
               !.numberOfLines = @ + e.numberOfLines,
               !.endsWithNewLine = e.endsWithNewLine]

CodeNode_merge(this, e) ==
  IF e.kind = "CodeNode"
  THEN [ok |-> TRUE, node |-> [this EXCEPT !.generatedCode = @ \o e.generatedCode]]
  ELSE NotMerged(this)

SingleLineNode_mergeSingleLineNode(this, e) ==
  IF this.source = e.source /\ this.originalSource = e.originalSource
  THEN IF this.line = e.line
       THEN [ok |-> TRUE, node |-> Absorb(this, e)]
       ELSE IF /\ this.line + 1 = e.line
               /\ this.endsWithNewLine
               /\ this.numberOfLines = 1
               /\ e.numberOfLines <= 1
       THEN [ok |-> TRUE,
             node |-> SourceNode(this.generatedCode \o e.generatedCode,
                                 this.source, this.originalSource, this.line)]
       ELSE NotMerged(this)
  ELSE NotMerged(this)

SingleLineNode_merge(this, e) ==
  IF e.kind = "SingleLineNode" THEN SingleLineNode_mergeSingleLineNode(this, e)
  ELSE NotMerged(this)

SourceNode_mergeSourceNode(this, e) ==
  IF /\ this.source = e.source
     /\ this.endsWithNewLine
     /\ this.line + this.numberOfLines = e.line
  THEN [ok |-> TRUE, node |-> Absorb(this, e)]
  ELSE NotMerged(this)

SourceNode_mergeSingleLineNode(this, e) ==
  IF /\ this.source = e.source
     /\ this.endsWithNewLine
     /\ this.line + this.numberOfLines = e.line
     /\ e.numberOfLines <= 1
  THEN [ok |-> TRUE, node |-> Absorb(this, e)]
  ELSE NotMerged(this)

SourceNode_merge(this, e) ==
  IF e.kind = "SourceNode" THEN SourceNode_mergeSourceNode(this, e)
  ELSE IF e.kind = "SingleLineNode" THEN SourceNode_mergeSingleLineNode(this, e)
  ELSE NotMerged(this)

merge(this, e) ==
  CASE this.kind = "CodeNode" -> CodeNode_merge(this, e)
    [] this.kind = "SingleLineNode" -> SingleLineNode_merge(this, e)
    [] this.kind = "SourceNode" -> SourceNode_merge(this, e)

(***************************************************************************)
(* module 300: MappingsContext.  unfinishedGeneratedLine starts as the     *)
(* boolean false; unfinishedIsFalse records that it still holds it (false  *)
(* is not === 0, and false + n is the number n).                           *)
(***************************************************************************)
MappingsContext ==
  [sources |-> <<>>, hasSourceContent |-> FALSE, currentOriginalLine |-> 1,
   currentSource |-> 0, unfinishedGeneratedLine |-> 0, unfinishedIsFalse |-> TRUE]

HasSource(ctx, e) == \E i \in 1..Len(ctx.sources) : ctx.sources[i].name = e

SourceIndex(ctx, e) == (CHOOSE i \in 1..Len(ctx.sources) : ctx.sources[i].name = e) - 1

\* ensureSource(e, t): the index returned and the context afterwards
ensureSource(ctx, e, t) ==
  IF HasSource(ctx, e)
  THEN [index |-> SourceIndex(ctx, e), ctx |-> ctx]
  ELSE [index |-> Len(ctx.sources),
        ctx |-> [ctx EXCEPT !.sources = Append(@, [name |-> e, content |-> t]),
                            !.hasSourceContent = @ \/ IsJsString(t)]]

\* Array(n + 1).join(s): n copies of s
RECURSIVE Repeat(_, _)
Repeat(s, n) == IF n <= 0 THEN <<>> ELSE s \o Repeat(s, n - 1)

\* mutant: a plain fragment without newline restarts the unfinished line
CodeNode_getMappings_restartsLine(node, ctx) ==
  LET t == getNumberOfLines(node.generatedCode)
      s == Repeat(<<";">>, t)
      u == getUnfinishedLine(node.generatedCode)
  IN [out |-> IF t > 0 /\ u > 0 THEN s \o <<"A">> ELSE s,
      ctx |-> [ctx EXCEPT !.unfinishedGeneratedLine = u, !.unfinishedIsFalse = FALSE]]

CodeNode_getMappings(node, ctx) ==
  LET t == getNumberOfLines(node.generatedCode)
      s == Repeat(<<";">>, t)
      u == getUnfinishedLine(node.generatedCode)
  IN IF t > 0
     THEN [out |-> IF u > 0 THEN s \o <<"A">> ELSE s,
           ctx |-> [ctx EXCEPT !.unfinishedGeneratedLine = u, !.unfinishedIsFalse = FALSE]]
     ELSE LET wasZero == ~ctx.unfinishedIsFalse /\ ctx.unfinishedGeneratedLine = 0
              now == ctx.unfinishedGeneratedLine + u
          IN [out |-> IF wasZero /\ now > 0 THEN <<"A">> ELSE <<>>,
              ctx |-> [ctx EXCEPT !.unfinishedGeneratedLine = now, !.unfinishedIsFalse = FALSE]]

\* mutant: a fragment ending with a newline does not close its last line
MappedGetMappings_noClosingSemicolon(node, ctx, marker, block) ==
  IF node.generatedCode = <<>> THEN [out |-> <<>>, ctx |-> ctx]
  ELSE
    LET t  == node.numberOfLines
        es == ensureSource(ctx, node.source, node.originalSource)
        s  == es.index
        c1 == es.ctx
        lead == IF c1.unfinishedGeneratedLine > 0
                THEN <<",">> \o base64VLQ_encode(c1.unfinishedGeneratedLine)
                ELSE <<"A">>
        first == lead \o base64VLQ_encode(s - c1.currentSource)
                      \o base64VLQ_encode(node.line - c1.currentOriginalLine)
                      \o <<"A">>
        o  == getUnfinishedLine(node.generatedCode)
        mid == Repeat(marker, t - 1)
        tail == IF o = 0 THEN <<>> ELSE IF t # 0 THEN marker ELSE <<>>
        lineAfter == IF block
                     THEN (node.line + t - 1) + (IF o = 0 THEN 0 ELSE 1)
                     ELSE node.line
    IN [out |-> first \o mid \o tail,
        ctx |-> [c1 EXCEPT !.currentSource = s,
                           !.currentOriginalLine = lineAfter,
                           !.unfinishedGeneratedLine = o,
                           !.unfinishedIsFalse = FALSE]]

\* the shared body of SingleLineNode.getMappings and SourceNode.getMappings;
\* marker is ";AAAA" resp. ";AACA", block tells the SourceNode line bookkeeping
MappedGetMappings(node, ctx, marker, block) ==
  IF node.generatedCode = <<>> THEN [out |-> <<>>, ctx |-> ctx]
  ELSE
    LET t  == node.numberOfLines
        es == ensureSource(ctx, node.source, node.originalSource)
        s  == es.index
        c1 == es.ctx
        lead == IF c1.unfinishedGeneratedLine > 0
                THEN <<",">> \o base64VLQ_encode(c1.unfinishedGeneratedLine)
                ELSE <<"A">>
        first == lead \o base64VLQ_encode(s - c1.currentSource)
                      \o base64VLQ_encode(node.line - c1.currentOriginalLine)
                      \o <<"A">>
        o  == getUnfinishedLine(node.generatedCode)
        mid == Repeat(marker, t - 1)
        tail == IF o = 0 THEN <<";">> ELSE IF t # 0 THEN marker ELSE <<>>
        lineAfter == IF block
                     THEN (node.line + t - 1) + (IF o = 0 THEN 0 ELSE 1)
                     ELSE node.line
    IN [out |-> first \o mid \o tail,
        ctx |-> [c1 EXCEPT !.currentSource = s,
                           !.currentOriginalLine = lineAfter,
                           !.unfinishedGeneratedLine = o,
                           !.unfinishedIsFalse = FALSE]]

SingleLineNode_getMappings(node, ctx) ==
  MappedGetMappings(node, ctx, <<";", "A", "A", "A", "A">>, FALSE)

\* mutant: the following lines of a block repeat the same original line
SourceNode_getMappings_sameLine(node, ctx) ==
  MappedGetMappings(node, ctx, <<";", "A", "A", "A", "A">>, TRUE)

SourceNode_getMappings(node, ctx) ==
  MappedGetMappings(node, ctx, <<";", "A", "A", "C", "A">>, TRUE)

getMappings(node, ctx) ==
  CASE node.kind = "CodeNode" -> CodeNode_getMappings(node, ctx)
    [] node.kind = "SingleLineNode" -> SingleLineNode_getMappings(node, ctx)
    [] node.kind = "SourceNode" -> SourceNode_getMappings(node, ctx)

\* the null map, an output not computed yet, a parse not run yet
NoMap == [sources |-> <<>>, hasSourcesContent |-> FALSE, sourcesContent |-> <<>>, mappings |-> <<>>]

NoParse == [ok |-> FALSE, children |-> <<>>]

NoOutput == [source |-> <<>>, map |-> NoMap]

(***************************************************************************)
(* module 805: SourceListMap.toString / toStringWithSourceMap              *)
(***************************************************************************)
RECURSIVE SLM_toString(_)
SLM_toString(children) ==
  IF children = <<>> THEN <<>>
  ELSE Head(children).generatedCode \o SLM_toString(Tail(children))

\* children.map(getMappings(ctx)).join(""), threading the one context
RECURSIVE MappingsOfChildren(_, _)
MappingsOfChildren(children, ctx) ==
  IF children = <<>> THEN [out |-> <<>>, ctx |-> ctx]
  ELSE LET r == getMappings(Head(children), ctx)
           q == MappingsOfChildren(Tail(children), r.ctx)
       IN [out |-> r.out \o q.out, ctx |-> q.ctx]

toStringWithSourceMap(children) ==
  LET r == MappingsOfChildren(children, MappingsContext)
  IN [source |-> SLM_toString(children),
      map |-> [sources |-> [i \in 1..Len(r.ctx.sources) |-> r.ctx.sources[i].name],
               hasSourcesContent |-> r.ctx.hasSourceContent,
               sourcesContent |-> IF r.ctx.hasSourceContent
                                  THEN [i \in 1..Len(r.ctx.sources) |-> r.ctx.sources[i].content]
                                  ELSE <<>>,
               mappings |-> r.out]]

(***************************************************************************)
(* module 234: fromStringWithSourceMap                                     *)
(***************************************************************************)
\* String.prototype.split on a one-character separator
RECURSIVE Split(_, _)
Split(s, sep) ==
  IF \E i \in 1..Len(s) : s[i] = sep
  THEN LET k == CHOOSE i \in 1..Len(s) : s[i] = sep /\ \A j \in 1..(i-1) : s[j] # sep
       IN <<SubSeq(s, 1, k - 1)>> \o Split(SubSeq(s, k + 1, Len(s)), sep)
  ELSE <<s>>

\* Array.prototype.join on a one-character separator
RECURSIVE Join(_, _)
Join(ss, sep) ==
  IF ss = <<>> THEN <<>>
  ELSE IF Len(ss) = 1 THEN ss[1]
  ELSE ss[1] \o <<sep>> \o Join(Tail(ss), sep)

\* 0-based indexOf(","), -1 when absent
IndexOfComma(s) ==
  IF \E i \in 1..Len(s) : s[i] = ","
  THEN (CHOOSE i \in 1..Len(s) : s[i] = "," /\ \A j \in 1..(i-1) : s[j] # ",") - 1
  ELSE -1

\* !e.trim(): e holds white space only
IsBlank(e) == \A i \in 1..Len(e) : e[i] \in {" ", NL}

\* The parser's closure state: h = nodes (the current node is the last one
\* pushed), p = currentSourceNodeLine, l = currentLine, d = currentSourceIdx
ParserInit == [h |-> <<>>, p |-> 0, l |-> 1, d |-> 0, ok |-> TRUE]

CurrentKind(st) == IF st.h = <<>> THEN "null" ELSE st.h[Len(st.h)].kind

addCode(st, e) ==
  IF CurrentKind(st) = "CodeNode"
  THEN [st EXCEPT !.h[Len(st.h)] = addGeneratedCode(@, e)]
  ELSE IF CurrentKind(st) = "SourceNode" /\ IsBlank(e)
  THEN [st EXCEPT !.h[Len(st.h)] = addGeneratedCode(@, e), !.p = @ + 1]
  ELSE [st EXCEPT !.h = Append(@, CodeNode(e))]

addSource(st, e, t, s, n) ==
  IF CurrentKind(st) = "SourceNode" /\ st.h[Len(st.h)].source = t /\ st.p = n
  THEN [st EXCEPT !.h[Len(st.h)] = addGeneratedCode(@, e), !.p = @ + 1]
  ELSE [st EXCEPT !.h = Append(@, SourceNode(e, t, s, n)), !.p = n + 1]

\* sources[r] / sourcesContent[r] as JS reads them
ArrayAt(arr, present, r) ==
  IF ~present THEN "null"
  ELSE IF r >= 0 /\ r < Len(arr) THEN arr[r + 1] ELSE "undefined"

\* processMapping(e, t, i): rest is e.rest, line the generated line, mapped
\* the flag i.  Returns the closure state, the new e.rest and the result.
processMapping(st, map, rest, line, mapped) ==
  LET dec1 == IF rest # <<>> /\ rest[1] # "," THEN base64VLQ_decode(rest)
              ELSE [ok |-> TRUE, value |-> 0, rest |-> rest]
  IN IF ~dec1.ok THEN [st |-> [st EXCEPT !.ok = FALSE], rest |-> <<>>, ret |-> FALSE]
     ELSE IF dec1.rest = <<>> THEN [st |-> st, rest |-> <<>>, ret |-> FALSE]
     ELSE IF dec1.rest[1] = "," THEN [st |-> st, rest |-> Tail(dec1.rest), ret |-> FALSE]
     ELSE
       LET dec2 == base64VLQ_decode(dec1.rest)
       IN IF ~dec2.ok THEN [st |-> [st EXCEPT !.ok = FALSE], rest |-> <<>>, ret |-> FALSE]
          ELSE
            LET r == dec2.value + st.d
                hasLine == dec2.rest # <<>> /\ dec2.rest[1] # ","
                dec3 == IF hasLine THEN base64VLQ_decode(dec2.rest)
                        ELSE [ok |-> TRUE, value |-> 0, rest |-> dec2.rest]
            IN IF ~dec3.ok THEN [st |-> [st EXCEPT !.ok = FALSE], rest |-> <<>>, ret |-> FALSE]
               ELSE
                 LET u == IF hasLine THEN dec3.value + st.l ELSE st.l
                     c == IndexOfComma(dec3.rest)
                     rest4 == IF dec3.rest = <<>> \/ c = -1 THEN <<>>
                              ELSE SubstrFrom(dec3.rest, c)
                     st1 == [st EXCEPT !.d = r, !.l = u]
                 IN IF ~mapped
                    THEN [st |-> addSource(st1, line, ArrayAt(map.sources, TRUE, r),
                                           ArrayAt(map.sourcesContent, map.hasSourcesContent, r), u),
                          rest |-> rest4, ret |-> TRUE]
                    ELSE [st |-> st1, rest |-> rest4, ret |-> FALSE]

\* while (e.rest) n = processMapping(e, s, n) || n;  if (!n) addCode(s)
RECURSIVE ProcessGroup(_, _, _, _, _)
ProcessGroup(st, map, rest, line, mapped) ==
  IF ~st.ok THEN st
  ELSE IF rest = <<>> THEN (IF mapped THEN st ELSE addCode(st, line))
  ELSE LET r == processMapping(st, map, rest, line, mapped)
       IN ProcessGroup(r.st, map, r.rest, line, r.ret \/ mapped)

\* f.forEach(function(e, t) {...}) from group index t (0-based) on
RECURSIVE ForEachGroup(_, _, _, _, _)
ForEachGroup(st, map, f, c, t) ==
  IF ~st.ok \/ t >= Len(f) THEN st
  ELSE IF t >= Len(c) THEN ForEachGroup(st, map, f, c, t + 1)
  ELSE LET s == IF t # Len(c) - 1 THEN c[t + 1] \o <<NL>> ELSE c[t + 1]
           e == f[t + 1]
       IN ForEachGroup(IF e = <<>> THEN addCode(st, s)
                       ELSE ProcessGroup(st, map, e, s, FALSE),
                       map, f, c, t + 1)

\* mutant: the remaining lines are joined without their newlines
TrailingBlank_joinsWithoutNewline(st, c, e) ==
  addCode(st, Flatten(SubSeq(c, e + 1, Len(c))))

\* while (!c[e].trim() && e < c.length - 1) { addCode(c[e] + "\n"); e++ }
RECURSIVE TrailingBlank(_, _, _)
TrailingBlank(st, c, e) ==
  IF IsBlank(c[e + 1]) /\ e < Len(c) - 1
  THEN TrailingBlank(addCode(st, c[e + 1] \o <<NL>>), c, e + 1)
  ELSE addCode(st, Join(SubSeq(c, e + 1, Len(c)), NL))

\* the result: ok = FALSE when a VLQ decode threw, otherwise the children
fromStringWithSourceMap(text, map) ==
  LET f == Split(map.mappings, ";")
      c == Split(text, NL)
      st1 == ForEachGroup(ParserInit, map, f, c, 0)
      st2 == IF st1.ok /\ Len(f) < Len(c) THEN TrailingBlank(st1, c, Len(f)) ELSE st1
  IN [ok |-> st2.ok, children |-> IF st2.ok THEN st2.h ELSE <<>>]

(***************************************************************************)
(* module 414: Replacement, ReplaceSource (text path)                      *)
(***************************************************************************)
Replacement(start, end, content, insertIndex) ==
  [start |-> start, end |-> end, content |-> content, insertIndex |-> insertIndex]

\* mutant: ties at the same (start, end) are broken by ascending insertIndex
SortsBefore_tieAscending(e, t) ==
  IF t.end # e.end THEN t.end < e.end
  ELSE IF t.start # e.start THEN t.start < e.start
  ELSE e.insertIndex < t.insertIndex

\* the comparator of _sortReplacements is negative: e is placed before t
SortsBefore(e, t) ==
  IF t.end # e.end THEN t.end < e.end
  ELSE IF t.start # e.start THEN t.start < e.start
  ELSE t.insertIndex < e.insertIndex

\* _replacements.sort(comparator): insertIndex is unique, so the order is total
SortReplacements(rs) ==
  LET rank(i) == Cardinality({j \in 1..Len(rs) : SortsBefore(rs[j], rs[i])})
  IN [k \in 1..Len(rs) |-> rs[CHOOSE i \in 1..Len(rs) : rank(i) = k - 1]]

\* _sortReplacements(): the array after the call
SortedReplacements(rs, isSorted) == IF isSorted THEN rs ELSE SortReplacements(rs)

\* _splitString(e, t)
SplitString(e, t) == IF t <= 0 THEN <<<<>>, e>> ELSE <<SubstrTo(e, t), SubstrFrom(e, t)>>

\* mutant: the text is cut at end instead of end + 1 (end taken as exclusive)
RECURSIVE ReplaceStringLoop_endExclusive(_, _)
ReplaceStringLoop_endExclusive(t, rs) ==
  IF rs = <<>> THEN t
  ELSE LET e == Head(rs)
           top == t[Len(t)]
           n == SplitString(top, e.end)
           i == SplitString(n[1], e.start)
       IN ReplaceStringLoop_endExclusive(SubSeq(t, 1, Len(t) - 1) \o <<n[2], e.content, i[1]>>, Tail(rs))

\* the forEach of _replaceString over the sorted replacements; t is the stack
RECURSIVE ReplaceStringLoop(_, _)
ReplaceStringLoop(t, rs) ==
  IF rs = <<>> THEN t
  ELSE LET e == Head(rs)
           top == t[Len(t)]
           n == SplitString(top, e.end + 1)
           i == SplitString(n[1], e.start)
       IN ReplaceStringLoop(SubSeq(t, 1, Len(t) - 1) \o <<n[2], e.content, i[1]>>, Tail(rs))

\* for (e = t.length - 1; e >= 0; --e) s += t[e]
RECURSIVE JoinReversed(_)
JoinReversed(t) == IF t = <<>> THEN <<>> ELSE t[Len(t)] \o JoinReversed(SubSeq(t, 1, Len(t) - 1))

\* _replaceString(e), on the replacements as _sortReplacements leaves them
ReplaceString(e, sorted) == JoinReversed(ReplaceStringLoop(<<e>>, sorted))

(***************************************************************************)
(* getNormalizedNodes, SourceListMap.add(string) and the merging tail of   *)
(* SourceListMap.mapGeneratedCode                                          *)
(***************************************************************************)
\* 1-based index of the first newline at or after 1-based index n, 0 if none
IndexOfNLFrom(s, n) ==
  IF \E i \in n..Len(s) : s[i] = NL
  THEN CHOOSE i \in n..Len(s) : s[i] = NL /\ \A j \in n..(i-1) : s[j] # NL
  ELSE 0

\* the while loop of SourceNode.getNormalizedNodes: n is the 0-based cursor,
\* t the original line of the next SingleLineNode
RECURSIVE SourceNode_normalizeLoop(_, _, _)
SourceNode_normalizeLoop(node, n, t) ==
  IF n >= Len(node.generatedCode) THEN <<>>
  ELSE LET k == IndexOfNLFrom(node.generatedCode, n + 1)
           r == IF k = 0 THEN Len(node.generatedCode) ELSE k
       IN <<SingleLineNode(SubSeq(node.generatedCode, n + 1, r),
                           node.source, node.originalSource, t)>>
          \o SourceNode_normalizeLoop(node, r, t + 1)

getNormalizedNodes(node) ==
  IF node.kind = "SourceNode" THEN SourceNode_normalizeLoop(node, 0, node.line)
  ELSE <<node>>

RECURSIVE NormalizedChildren(_)
NormalizedChildren(children) ==
  IF children = <<>> THEN <<>>
  ELSE getNormalizedNodes(Head(children)) \o NormalizedChildren(Tail(children))

\* mapGeneratedCode: s is the list built so far, t the next mapped node
MergeInto(s, t) ==
  IF s = <<>> THEN <<t>>
  ELSE LET n == merge(s[Len(s)], t)
       IN IF n.ok THEN [s EXCEPT ![Len(s)] = n.node] ELSE Append(s, t)

RECURSIVE MergeAll(_, _)
MergeAll(s, nodes) ==
  IF nodes = <<>> THEN s ELSE MergeAll(MergeInto(s, Head(nodes)), Tail(nodes))

\* SourceListMap.add(e, t, s) for a string e; t = "undefined" when no source
SLM_addString(children, e, t, s) ==
  IF t \notin {"undefined", "null", ""}
  THEN Append(children, SourceNode(e, t, s, 0))
  ELSE IF children # <<>> /\ children[Len(children)].kind = "CodeNode"
  THEN [children EXCEPT ![Len(children)] = addGeneratedCode(@, e)]
  ELSE Append(children, CodeNode(e))

\* new SourceListMap(e, t, s): if (e || t) this.add(e, t, s)
SourceListMap(e, t, s) ==
  IF e # <<>> \/ t \notin {"undefined", "null", ""}
  THEN SLM_addString(<<>>, e, t, s) ELSE <<>>

(***************************************************************************)
(* module 414: ReplaceSource.listMap; module 533: getSourceAndMap with     *)
(* columns: false; OriginalSource.listMap                                  *)
(***************************************************************************)
Max(a, b) == IF a >= b THEN a ELSE b

\* the while loop inside the callback of listMap: w = [e, u, s, r, i], t is
\* the end position of the node, n the sorted replacements
RECURSIVE ListMapInner(_, _, _)
ListMapInner(w, t, n) ==
  IF w.i >= 0 /\ n[w.i + 1].start < t
  THEN LET o == n[w.i + 1]
           f == o.start
           c == o.end + 1
           h == SubstrTo(w.e, Max(0, f - w.s))
       IN IF c <= t
          THEN ListMapInner([w EXCEPT !.u = @ \o h \o o.content,
                                      !.e = SubstrFrom(w.e, Max(0, c - w.s)),
                                      !.s = Max(w.s, c),
                                      !.i = @ - 1], t, n)
          ELSE ListMapInner([w EXCEPT !.u = @ \o h \o o.content,
                                      !.e = <<>>,
                                      !.r = c - t,
                                      !.i = @ - 1], t, n)
  ELSE w

\* the callback of listMap applied to the code e of one node; st = [s, i, r]
ListMapCallback(st, e, n) ==
  LET t == st.s + Len(e)
  IN IF st.r > Len(e)
     THEN [out |-> <<>>, st |-> [s |-> t, i |-> st.i, r |-> st.r - Len(e)]]
     ELSE LET e1 == IF st.r > 0 THEN SubstrFrom(e, st.r) ELSE e
              s1 == IF st.r > 0 THEN st.s + st.r ELSE st.s
              w == ListMapInner([e |-> e1, u |-> <<>>, s |-> s1, r |-> 0, i |-> st.i], t, n)
          IN [out |-> w.u \o w.e, st |-> [s |-> t, i |-> w.i, r |-> w.r]]

\* mapGeneratedCode of a CodeNode / SingleLineNode with the new code
mapGeneratedCode(node, code) ==
  IF node.kind = "CodeNode" THEN CodeNode(code)
  ELSE SingleLineNode(code, node.source, node.originalSource, node.line)

\* the callback over the normalized nodes, in order
RECURSIVE ListMapWalk(_, _, _)
ListMapWalk(nodes, st, n) ==
  IF nodes = <<>> THEN [nodes |-> <<>>, st |-> st]
  ELSE LET r == ListMapCallback(st, Head(nodes).generatedCode, n)
           q == ListMapWalk(Tail(nodes), r.st, n)
       IN [nodes |-> <<mapGeneratedCode(Head(nodes), r.out)>> \o q.nodes, st |-> q.st]

\* while (i >= 0) { u += n[i].content; i-- }
RECURSIVE RemainingContent(_, _)
RemainingContent(n, i) ==
  IF i < 0 THEN <<>> ELSE n[i + 1].content \o RemainingContent(n, i - 1)

\* ReplaceSource.listMap on the list map of the wrapped source
ReplaceSource_listMap(children, sorted) ==
  LET walk == ListMapWalk(NormalizedChildren(children),
                          [s |-> 0, i |-> Len(sorted) - 1, r |-> 0], sorted)
      mapped == MergeAll(<<>>, walk.nodes)
      u == RemainingContent(sorted, walk.st.i)
  IN IF u # <<>> THEN SLM_addString(mapped, u, "undefined", "undefined") ELSE mapped

\* OriginalSource.listMap: new SourceListMap(value, name, value); the content
\* of the original is named by the token content
OriginalSource_listMap(value, name, content) == SourceListMap(value, name, content)

\* getSourceAndMap(source, {columns: false}) on a list map
getSourceAndMap(children) ==
  LET i == toStringWithSourceMap(children)
  IN [source |-> i.source,
      map |-> IF Len(i.map.sources) = 0 THEN NoMap ELSE i.map]

(***************************************************************************)
(* module 209: ConcatSource.  A child is a string, or a source object;     *)
(* synthetic marks the RawSources _optimize created (the members of the    *)
(* module's WeakSet).                                                      *)
(***************************************************************************)
StringChild(t) == [type |-> "string", text |-> t, synthetic |-> FALSE]

SourceChild(t) == [type |-> "source", text |-> t, synthetic |-> FALSE]

\* new RawSource(t), added to the WeakSet
SyntheticRawSource(t) == [type |-> "source", text |-> t, synthetic |-> TRUE]

NoPending == [tag |-> "undefined", parts |-> <<>>, child |-> StringChild(<<>>)]

\* s as a string: typeof s === "string" ? s : s.source()
PendingText(s) == IF s.tag = "string" THEN s.parts[1] ELSE s.child.text

\* the closure n(e) of _optimize: a string e joins the pending run s
OptAddString(s, e) ==
  IF s.tag = "undefined" THEN [tag |-> "string", parts |-> <<e>>, child |-> StringChild(<<>>)]
  ELSE IF s.tag = "array" THEN [s EXCEPT !.parts = Append(@, e)]
  ELSE [tag |-> "array", parts |-> <<PendingText(s), e>>, child |-> StringChild(<<>>)]

\* mutant: a synthetic RawSource met while a run is pending replaces the run
OptAddRawSource_replacesRun(s, e) == [tag |-> "source", parts |-> <<>>, child |-> e]

\* the closure r(e) of _optimize: a synthetic RawSource e joins the pending run
OptAddRawSource(s, e) ==
  IF s.tag = "undefined" THEN [tag |-> "source", parts |-> <<>>, child |-> e]
  ELSE IF s.tag = "array" THEN [s EXCEPT !.parts = Append(@, e.text)]
  ELSE [tag |-> "array", parts |-> <<PendingText(s), e.text>>, child |-> StringChild(<<>>)]

\* the closure u() of _optimize: the child the pending run s becomes
OptFlush(s) ==
  IF s.tag = "array" THEN SyntheticRawSource(Flatten(s.parts))
  ELSE IF s.tag = "string" THEN SyntheticRawSource(s.parts[1])
  ELSE s.child

\* the for loop of _optimize: e = new children, t = pending string (hasT
\* tells it is not undefined), s = pending run
RECURSIVE OptimizeLoop(_, _, _, _, _)
OptimizeLoop(children, e, hasT, t, s) ==
  IF children = <<>>
  THEN LET s1 == IF hasT THEN OptAddString(s, t) ELSE s
       IN IF s1.tag # "undefined" THEN Append(e, OptFlush(s1)) ELSE e
  ELSE LET i == Head(children)
       IN IF i.type = "string"
          THEN OptimizeLoop(Tail(children), e, TRUE, IF hasT THEN t \o i.text ELSE i.text, s)
          ELSE LET s1 == IF hasT THEN OptAddString(s, t) ELSE s
               IN IF i.synthetic
                  THEN OptimizeLoop(Tail(children), e, FALSE, <<>>, OptAddRawSource(s1, i))
                  ELSE OptimizeLoop(Tail(children),
                                    (IF s1.tag # "undefined" THEN Append(e, OptFlush(s1)) ELSE e)
                                      \o <<i>>,
                                    FALSE, <<>>, NoPending)

\* _optimize(): the children afterwards
Optimize(children) == OptimizeLoop(children, <<>>, FALSE, <<>>, NoPending)

\* if (!this._isOptimized) this._optimize()
Optimized(children, isOptimized) == IF isOptimized THEN children ELSE Optimize(children)

\* ConcatSource.source() over optimized children
RECURSIVE ConcatSource_source(_)
ConcatSource_source(children) ==
  IF children = <<>> THEN <<>> ELSE Head(children).text \o ConcatSource_source(Tail(children))

\* ConcatSource.size() over optimized children: each child's buffer length
RECURSIVE ConcatSource_size(_)
ConcatSource_size(children) ==
  IF children = <<>> THEN 0 ELSE Len(Head(children).text) + ConcatSource_size(Tail(children))

(***************************************************************************)
(* module 72: CachedSource, over the wrapped sources RawSource and         *)
(* OriginalSource.  A value is a string, a Buffer or undefined; a Buffer   *)
(* holds the bytes of the UTF-8 encoding.                                  *)
(***************************************************************************)
Undefined == [type |-> "undefined", chars |-> <<>>, bytes |-> <<>>]

StringValue(t) == [type |-> "string", chars |-> t, bytes |-> <<>>]

BufferValue(b) == [type |-> "buffer", chars |-> <<>>, bytes |-> b]

\* a character outside ASCII, U+00E9, which UTF-8 encodes in two bytes
TwoByteChar == "U+00E9"

Utf8Char(c) ==
  CASE c = "a" -> <<97>>
    [] c = NL -> <<10>>
    [] c = TwoByteChar -> <<195, 169>>

\* Buffer.from(chars, "utf-8")
RECURSIVE Buffer_from(_)
Buffer_from(chars) ==
  IF chars = <<>> THEN <<>> ELSE Utf8Char(Head(chars)) \o Buffer_from(Tail(chars))

Buffer_isBuffer(v) == v.type = "buffer"

\* Buffer.byteLength(v) of a string or a Buffer
Buffer_byteLength(v) == IF Buffer_isBuffer(v) THEN Len(v.bytes) ELSE Len(Buffer_from(v.chars))

\* the options argument: absent, or an object with its fields in order
Absent == [given |-> FALSE, fields |-> <<>>]

Options(fields) == [given |-> TRUE, fields |-> fields]

Field(name, value) == [name |-> name, value |-> value]

\* JSON.stringify(e) of an options object, as a sequence of tokens
RECURSIVE JSON_fields(_)
JSON_fields(fields) ==
  IF fields = <<>> THEN <<>>
  ELSE <<"\"" \o Head(fields).name \o "\"", ":", Head(fields).value>>
       \o (IF Tail(fields) = <<>> THEN <<>> ELSE <<",">>)
       \o JSON_fields(Tail(fields))

JSON_stringify(e) == <<"{">> \o JSON_fields(e.fields) \o <<"}">>

\* t && t.columns === false
ColumnsIsFalse(t) ==
  t.given /\ \E i \in 1..Len(t.fields) :
               /\ t.fields[i].name = "columns" /\ t.fields[i].value = "false"
               /\ \A j \in (i + 1)..Len(t.fields) : t.fields[j].name # "columns"

\* new RawSource(value) for a string or a Buffer; new OriginalSource(text, name)
RawSource(value) == [class |-> "RawSource", value |-> value, name |-> "undefined"]

OriginalSource(text, name) == [class |-> "OriginalSource", value |-> StringValue(text), name |-> name]

\* RawSource.source / OriginalSource.source
Source_source(w) == w.value

\* RawSource.buffer / OriginalSource.buffer
Source_buffer(w) ==
  IF Buffer_isBuffer(w.value) THEN w.value ELSE BufferValue(Buffer_from(w.value.chars))

\* Source.size: this.buffer().length
Source_size(w) == Len(Source_buffer(w).bytes)

\* source.node(t).toStringWithSourceMap({file: "x"}): the column-level map
\* the source-map package builds for an OriginalSource; the package is
\* outside the bundle, the map is kept as a token
NodeSourceAndMap(w) ==
  [source |-> w.value.chars,
   map |-> [sources |-> <<w.name>>, hasSourcesContent |-> TRUE,
            sourcesContent |-> <<"c1">>, mappings |-> <<"column-level">>]]

\* if (!n || !n.sources || n.sources.length === 0) n = null
NullUnlessSources(n) == IF Len(n.sources) = 0 THEN NoMap ELSE n

\* return {source: s, map: n} for the output i of toStringWithSourceMap
SourceAndNullableMap(i) == [source |-> StringValue(i.source), map |-> NullUnlessSources(i.map)]

\* helpers getSourceAndMap(e, t) of module 533
helpers_getSourceAndMap(w, t) ==
  SourceAndNullableMap(
    IF ColumnsIsFalse(t)
    THEN toStringWithSourceMap(OriginalSource_listMap(w.value.chars, w.name, "c1"))
    ELSE NodeSourceAndMap(w))

\* helpers getMap(e, t) of module 533
helpers_getMap(w, t) ==
  NullUnlessSources(
    IF ColumnsIsFalse(t)
    THEN toStringWithSourceMap(OriginalSource_listMap(w.value.chars, w.name, "c1")).map
    ELSE NodeSourceAndMap(w).map)

\* RawSource.map: null; OriginalSource.map: getMap(this, e)
Source_map(w, e) == IF w.class = "RawSource" THEN NoMap ELSE helpers_getMap(w, e)

\* Source.sourceAndMap for a RawSource; OriginalSource.sourceAndMap
Source_sourceAndMap(w, e) ==
  IF w.class = "RawSource" THEN [source |-> Source_source(w), map |-> Source_map(w, e)]
  ELSE helpers_getSourceAndMap(w, e)

\* mutant: the key of the map cache ignores the options
CachedMapsKey_ignoresOpts(e) == <<"{", "}">>

\* const t = e ? JSON.stringify(e) : "{}"
CachedMapsKey(e) == IF e.given THEN JSON_stringify(e) ELSE <<"{", "}">>

\* this._cachedMaps.set(t, {map: m, bufferedMap: undefined})
CachedMaps_set(maps, t, m) ==
  [k \in DOMAIN maps \cup {t} |->
     IF k = t THEN [map |-> m, bufferedMap |-> "undefined"] ELSE maps[k]]

(***************************************************************************)
(* module 485: PrefixSource over a RawSource or an OriginalSource          *)
(***************************************************************************)
\* e.replace(/\n(?=.|\s)/g, "\n" + t): the prefix t goes after every newline
\* that is followed by a character
RECURSIVE ReplaceInnerNewlines(_, _)
ReplaceInnerNewlines(e, t) ==
  IF e = <<>> THEN <<>>
  ELSE IF Head(e) = NL /\ Tail(e) # <<>>
  THEN <<NL>> \o t \o ReplaceInnerNewlines(Tail(e), t)
  ELSE <<Head(e)>> \o ReplaceInnerNewlines(Tail(e), t)

\* PrefixSource.source
PrefixSource_source(w, t) == t \o ReplaceInnerNewlines(Source_source(w).chars, t)

\* RawSource.listMap: new SourceListMap(value); OriginalSource.listMap
Source_listMap(w) ==
  IF w.class = "RawSource"
  THEN SourceListMap(w.value.chars, "undefined", "undefined")
  ELSE OriginalSource_listMap(w.value.chars, w.name, "c1")

\* the callback of PrefixSource.listMap over the normalized nodes in order;
\* n is the flag telling that the previous fragment ended with a newline
RECURSIVE PrefixWalk(_, _, _)
PrefixWalk(nodes, t, n) ==
  IF nodes = <<>> THEN <<>>
  ELSE LET e == Head(nodes).generatedCode
           r == ReplaceInnerNewlines(e, t)
       IN <<mapGeneratedCode(Head(nodes), IF n THEN t \o r ELSE r)>>
          \o PrefixWalk(Tail(nodes), t, EndsWithNL(e))

\* PrefixSource.listMap: SourceListMap.mapGeneratedCode with the callback
PrefixSource_listMap(w, t) ==
  MergeAll(<<>>, PrefixWalk(NormalizedChildren(Source_listMap(w)), t, TRUE))

\* PrefixSource.sourceAndMap({columns: false})
PrefixSource_sourceAndMap(w, t) ==
  SourceAndNullableMap(toStringWithSourceMap(PrefixSource_listMap(w, t)))

(***************************************************************************)
(* packages/blitz-rpc/src/index-server.ts: isBlitzRPCVerbose.  A config is *)
(* a record: logging tells that config.logging exists, hasVerbose that the *)
(* key verbose is in it, verbose its value; allowDefined / blockDefined    *)
(* tell that the arrays exist (an empty array is truthy); disablelevel is  *)
(* "undefined", "debug" or "info".                                         *)
(***************************************************************************)
RpcConfig(logging, hasVerbose, verbose, allowDefined, allowList, blockDefined, blockList, disablelevel) ==
  [logging |-> logging, hasVerbose |-> hasVerbose, verbose |-> verbose,
   allowDefined |-> allowDefined, allowList |-> allowList,
   blockDefined |-> blockDefined, blockList |-> blockList,
   disablelevel |-> disablelevel]

isBlitzRPCVerbose(resolverName, config, level) ==
  IF ~config.logging THEN TRUE
  ELSE IF ~config.hasVerbose THEN TRUE
  ELSE LET isLevelDisabled == config.disablelevel = level
       IN IF config.verbose
          THEN IF config.allowDefined /\ resolverName \in config.allowList /\ ~isLevelDisabled
               THEN TRUE
               ELSE IF config.blockDefined /\ resolverName \notin config.blockList
                       /\ ~isLevelDisabled
               THEN TRUE
               ELSE IF ~config.allowDefined /\ ~config.blockDefined /\ ~isLevelDisabled
               THEN TRUE
               ELSE FALSE
          ELSE FALSE

(***************************************************************************)
(* module 805: SourceListMap.add / preprend on node objects.  A children   *)
(* array holds references into a heap of nodes, so that a node pushed onto *)
(* two arrays is one object.                                               *)
(***************************************************************************)
Deref(heap, refs) == [i \in 1..Len(refs) |-> heap[refs[i]]]

Alloc(heap, node) == Append(heap, node)

\* add(e, t, s) for a string e
SourceListMap_addString(heap, refs, e, t, s) ==
  IF t \notin {"undefined", "null", ""}
  THEN [heap |-> Alloc(heap, SourceNode(e, t, s, 0)), refs |-> Append(refs, Len(heap) + 1)]
  ELSE IF refs # <<>> /\ heap[refs[Len(refs)]].kind = "CodeNode"
  THEN [heap |-> [heap EXCEPT ![refs[Len(refs)]] = addGeneratedCode(@, e)], refs |-> refs]
  ELSE [heap |-> Alloc(heap, CodeNode(e)), refs |-> Append(refs, Len(heap) + 1)]

\* add(e) for a node e: this.children.push(e)
SourceListMap_addNode(refs, ref) == Append(refs, ref)

\* add(e) for a SourceListMap e: e.children.forEach(push)
SourceListMap_addList(refs, other) == refs \o other

\* preprend(e, t, s) for a string e; no node class has preprendGeneratedCode
SourceListMap_preprendString(heap, refs, e, t, s) ==
  IF t \notin {"undefined", "null", ""}
  THEN [heap |-> Alloc(heap, SourceNode(e, t, s, 0)), refs |-> <<Len(heap) + 1>> \o refs]
  ELSE [heap |-> Alloc(heap, CodeNode(e)), refs |-> <<Len(heap) + 1>> \o refs]

\* preprend(e) for a node e: this.children.unshift(e)
SourceListMap_preprendNode(refs, ref) == <<ref>> \o refs

\* preprend(e) for a SourceListMap e: e.children.slice().reverse().forEach(unshift)
SourceListMap_preprendList(refs, other) == other \o refs

(***************************************************************************)
(* part_001: PrismaStorage over a Prisma client.  The session table is a   *)
(* function from handles to the stored data, NoRow for a handle without a  *)
(* row.  The client is the environment: a call on it succeeds or throws an *)
(* error with a Prisma code.                                               *)
(***************************************************************************)
NoRow == "absent"

\* the ways db.session.update({where: {handle}, data}) can end: P2016 is
\* the code the storage expects for a handle without a row, P1001 stands
\* for an error of any other kind (the database cannot be reached)
db_session_update_outcomes(db, handle) ==
  IF db[handle] = NoRow THEN {"P2016", "P1001"} ELSE {"ok", "P1001"}

\* the ways db.session.create can end: P2002 is the unique constraint
db_session_create_outcomes(db, handle) ==
  IF db[handle] = NoRow THEN {"ok", "P1001"} ELSE {"P2002", "P1001"}

db_session_delete_outcomes(db, handle) ==
  IF db[handle] = NoRow THEN {"P2025", "P1001"} ELSE {"ok", "P1001"}

Returned(db, value) == [db |-> db, outcome |-> "returned", value |-> value, thrown |-> "none"]

Threw(db, code) == [db |-> db, outcome |-> "threw", value |-> "undefined", thrown |-> code]

\* createSession: return db.session.create({data: ...})
PrismaStorage_createSession(db, handle, session, o) ==
  IF o = "ok" THEN Returned([db EXCEPT ![handle] = session], session) ELSE Threw(db, o)

\* updateSession: try { return await db.session.update(...) } catch (error)
\* { if (error.code === "P2016") console.warn(...) else throw error }
PrismaStorage_updateSession(db, handle, session, o) ==
  IF o = "ok" THEN Returned([db EXCEPT ![handle] = session], session)
  ELSE IF o = "P2016" THEN Returned(db, "undefined")
  ELSE Threw(db, o)

\* deleteSession: db.session.delete({where: {handle}})
PrismaStorage_deleteSession(db, handle, o) ==
  IF o = "ok" THEN Returned([db EXCEPT ![handle] = NoRow], db[handle]) ELSE Threw(db, o)

(***************************************************************************)
(* index-server.ts: loadResolver, rpcHandler and rpcApiHandler.  A request *)
(* is [method, body, queryParams]: body is "none" (nothing was sent),      *)
(* "withParams" or "withoutParams" (a JSON object with or without the key  *)
(* params); queryParams tells whether req.query.params / rpcQuery.params   *)
(* is defined.  A resolver file is "missing", "noDefault", or the          *)
(* httpMethod of its config ("unset" when the config names none).          *)
(***************************************************************************)
\* the message of the 400 answer (its two grave accents left out)
MissingParams == "Request body is missing the params key"

RpcRequest(method, body, queryParams) ==
  [method |-> method, body |-> body, queryParams |-> queryParams]

RpcResponded(status, message, executed) ==
  [outcome |-> "responded", status |-> status, message |-> message, executed |-> executed]

RpcThrew(message) ==
  [outcome |-> "threw", status |-> 0, message |-> message, executed |-> FALSE]

\* loadResolver: {...defaultConfig, ...config} with defaultConfig.httpMethod = "POST"
loadResolver(file) ==
  IF file = "missing" THEN [ok |-> FALSE, message |-> "No resolver for path", httpMethod |-> ""]
  ELSE IF file = "noDefault"
  THEN [ok |-> FALSE, message |-> "No default export for resolver path", httpMethod |-> ""]
  ELSE [ok |-> TRUE, message |-> "", httpMethod |-> IF file = "unset" THEN "POST" ELSE file]

\* the try / catch around deserialize and executeBlitzResolver: the resolver
\* runs and resolves or rejects; errorStatus is the status of the catch branch
\* (200 by default in rpcHandler, error.statusCode in rpcApiHandler, here 500)
ExecuteAndRespond(resolves, errorStatus) ==
  IF resolves THEN RpcResponded(200, "", TRUE) ELSE RpcResponded(errorStatus, "error", TRUE)

\* handleRpcRequest of rpcHandler; res.json without res.status answers 200
rpcHandler(req, file, resolves) ==
  LET l == loadResolver(file)
  IN IF ~l.ok THEN RpcThrew(l.message)
     ELSE IF req.method = "HEAD" THEN RpcResponded(200, "", FALSE)
     ELSE IF req.method = "POST" \/ (req.method = "GET" /\ l.httpMethod = "GET")
     THEN IF req.method = "POST" /\ req.body # "withParams"
          THEN RpcResponded(400, MissingParams, FALSE)
          ELSE ExecuteAndRespond(resolves, 200)
     ELSE RpcResponded(404, "", FALSE)

\* await request.json(): rejects when the request carries no body
Request_json(request) ==
  IF request.body = "none" THEN [ok |-> FALSE, hasParams |-> FALSE]
  ELSE [ok |-> TRUE, hasParams |-> request.body = "withParams"]

\* handleRpcRequest of rpcApiHandler: the body is read first, the params
\* test reads rpcQuery.params; the catch branch answers error.statusCode
rpcApiHandler(request, file, resolves) ==
  LET body == Request_json(request)
      l == loadResolver(file)
  IN IF ~body.ok THEN RpcThrew("Unexpected end of JSON input")
     ELSE IF ~l.ok THEN RpcThrew(l.message)
     ELSE IF request.method = "HEAD" THEN RpcResponded(200, "", FALSE)
     ELSE IF request.method = "POST" \/ (request.method = "GET" /\ l.httpMethod = "GET")
     THEN IF request.method = "POST" /\ ~request.queryParams
          THEN RpcResponded(400, MissingParams, FALSE)
          ELSE ExecuteAndRespond(resolves, 500)
     ELSE RpcResponded(404, "", FALSE)

(***************************************************************************)
(* Source Map v3 wire format: the standard encoding of a table of absolute *)
(* segments and the standard decoding of a mappings string.  A segment is  *)
(* [n |-> 1, col] (unmapped) or [n |-> 4, col, src, line, ocol], src being *)
(* an index into sources and line the 1-based original line.               *)
(***************************************************************************)
Seg1(col) == [n |-> 1, col |-> col, src |-> 0, line |-> 1, ocol |-> 0]

Seg4(col, src, line, ocol) == [n |-> 4, col |-> col, src |-> src, line |-> line, ocol |-> ocol]

WireInit == [col |-> 0, src |-> 0, line |-> 1, ocol |-> 0]

\* one group: segments joined by ",", deltas against the running state w
RECURSIVE EncodeGroup(_, _, _)
EncodeGroup(segs, w, first) ==
  IF segs = <<>> THEN [out |-> <<>>, w |-> w]
  ELSE LET g == Head(segs)
           sep == IF first THEN <<>> ELSE <<",">>
           txt == IF g.n = 1 THEN base64VLQ_encode(g.col - w.col)
                  ELSE base64VLQ_encode(g.col - w.col) \o base64VLQ_encode(g.src - w.src)
                       \o base64VLQ_encode(g.line - w.line) \o base64VLQ_encode(g.ocol - w.ocol)
           w1 == IF g.n = 1 THEN [w EXCEPT !.col = g.col]
                 ELSE [col |-> g.col, src |-> g.src, line |-> g.line, ocol |-> g.ocol]
           q == EncodeGroup(Tail(segs), w1, FALSE)
       IN [out |-> sep \o txt \o q.out, w |-> q.w]

RECURSIVE EncodeGroups(_, _, _)
EncodeGroups(groups, w, first) ==
  IF groups = <<>> THEN <<>>
  ELSE LET r == EncodeGroup(Head(groups), [w EXCEPT !.col = 0], TRUE)
       IN (IF first THEN <<>> ELSE <<";">>) \o r.out \o EncodeGroups(Tail(groups), r.w, FALSE)

EncodeTable(groups) == EncodeGroups(groups, WireInit, TRUE)

\* the fields of one segment text, decoded one after the other
RECURSIVE DecodeFields(_)
DecodeFields(txt) ==
  IF txt = <<>> THEN <<>>
  ELSE LET d == base64VLQ_decode(txt)
       IN IF d.ok THEN <<d.value>> \o DecodeFields(d.rest) ELSE <<>>

\* the segments of one group as absolute entries of generated line gl
RECURSIVE DecodeSegs(_, _, _, _)
DecodeSegs(segTexts, w, gl, sources) ==
  IF segTexts = <<>> THEN [tab |-> {}, w |-> w]
  ELSE LET fs == DecodeFields(Head(segTexts))
           w1 == IF Len(fs) >= 4
                 THEN [col |-> w.col + fs[1], src |-> w.src + fs[2],
                       line |-> w.line + fs[3], ocol |-> w.ocol + fs[4]]
                 ELSE IF Len(fs) >= 1 THEN [w EXCEPT !.col = @ + fs[1]]
                 ELSE w
           here == IF Len(fs) >= 4
                   THEN {[gl |-> gl, gc |-> w1.col, n |-> 4,
                          source |-> ArrayAt(sources, TRUE, w1.src),
                          line |-> w1.line, ocol |-> w1.ocol]}
                   ELSE IF Len(fs) >= 1
                   THEN {[gl |-> gl, gc |-> w1.col, n |-> 1,
                          source |-> "null", line |-> 0, ocol |-> 0]}
                   ELSE {}
           q == DecodeSegs(Tail(segTexts), w1, gl, sources)
       IN [tab |-> here \cup q.tab, w |-> q.w]

RECURSIVE DecodeGroups(_, _, _, _)
DecodeGroups(groupTexts, w, gl, sources) ==
  IF groupTexts = <<>> THEN {}
  ELSE LET r == DecodeSegs(Split(Head(groupTexts), ","), [w EXCEPT !.col = 0], gl, sources)
       IN r.tab \cup DecodeGroups(Tail(groupTexts), r.w, gl + 1, sources)

\* every segment of a map, the unmapped (1-field) ones included
DecodeAll(map) == DecodeGroups(Split(map.mappings, ";"), WireInit, 1, map.sources)

\* the resolved table of a map: (generated line, column) -> (source, line, column)
DecodeTable(map) ==
  {[gl |-> x.gl, gc |-> x.gc, source |-> x.source, line |-> x.line, ocol |-> x.ocol] :
     x \in {y \in DecodeAll(map) : y.n = 4}}

\* the (source, original line) the character at 0-based position pos of text
\* resolves to: the segment of its generated line with the greatest column
\* not after the character; the empty set when there is none or it is unmapped
ResolveChar(map, text, pos) ==
  LET before == SubstrTo(text, pos)
      gl == getNumberOfLines(before) + 1
      gc == getUnfinishedLine(before)
      cands == {y \in DecodeAll(map) : y.gl = gl /\ y.gc <= gc}
      best == {y \in cands : \A z \in cands : z.gc <= y.gc}
  IN {<<y.source, y.line>> : y \in {z \in best : z.n = 4}}

(***************************************************************************)
(* Inputs of the parser specification                                      *)
(***************************************************************************)
TextChars == {"a", NL}

Texts == SeqsUpTo(TextChars, MaxTextLen)

SourceNames == <<"s1", "s2">>

SourceContents == <<"c1", "c2">>

MappedAt0 == {Seg4(0, s, l, 0) : s \in {0, 1}, l \in {1, 2}}

MappedAt1 == {Seg4(1, 0, 1, 0), Seg4(1, 1, 2, 1)}

\* the segment groups a generated line may carry
SegmentGroups ==
  {<<>>} \cup {<<g>> : g \in {Seg1(0)} \cup MappedAt0 \cup MappedAt1}
         \cup {<<g, h>> : g \in {Seg1(0), Seg4(0, 0, 1, 0)}, h \in {Seg1(1)} \cup MappedAt1}

Tables == SeqsUpTo(SegmentGroups, MaxGroups)

MapOf(table) ==
  [sources |-> SourceNames, hasSourcesContent |-> TRUE,
   sourcesContent |-> SourceContents, mappings |-> EncodeTable(table)]

(***************************************************************************)
(* Idle values of the variable groups                                      *)
(***************************************************************************)
NoDecode == [ok |-> FALSE, value |-> 0, rest |-> <<>>]

VlqIdle == vlqPc = "idle" /\ vlqN = 0 /\ vlqText = <<>> /\ vlqOut = NoDecode

PsIdle ==
  /\ psPc = "idle" /\ psText = <<>> /\ psTable = <<>>
  /\ psParsed = NoParse /\ psString = <<>> /\ psOut = NoOutput

MgIdle ==
  /\ mgPc = "idle" /\ mgA = CodeNode(<<>>) /\ mgB = CodeNode(<<>>)
  /\ mgMerged = NotMerged(CodeNode(<<>>)) /\ mgPairOut = NoOutput /\ mgMergedOut = NoOutput

IdIdle ==
  /\ idPc = "idle" /\ idList = <<>> /\ idOut1 = NoOutput
  /\ idParsed = NoParse /\ idOut2 = NoOutput

NoResult == [n |-> -1, source |-> <<>>, map |-> NoMap]

RsIdle ==
  /\ rsText = <<>> /\ rsReplacements = <<>> /\ rsIsSorted = TRUE
  /\ rsOut = NoResult /\ rsBase = NoResult /\ rsMapOut = NoResult

NoConcatOut == [sourceN |-> -1, source |-> <<>>, sizeN |-> -1, size |-> 0]

CcIdle ==
  /\ ccChildren = <<>> /\ ccIsOptimized = TRUE /\ ccAdded = <<>> /\ ccOut = NoConcatOut

NoCall == [call |-> "none", opts |-> Absent, source |-> Undefined, map |-> NoMap, size |-> 0]

CsIdle ==
  /\ csSource = RawSource(StringValue(<<>>)) /\ csCachedSource = Undefined
  /\ csCachedBuffer = Undefined /\ csCachedSize = <<>> /\ csCachedMaps = <<>>
  /\ csComputed = <<>> /\ csAsked = <<>> /\ csOut = NoCall

NoText == [done |-> FALSE, source |-> <<>>]

NoSourceAndMap == [done |-> FALSE, source |-> <<>>, map |-> NoMap]

PxIdle ==
  /\ pxSource = RawSource(StringValue(<<>>)) /\ pxPrefix = <<>>
  /\ pxOut = NoText /\ pxMapOut = NoSourceAndMap

NoSerialized == [n |-> -1, source |-> <<>>, map |-> NoMap]

SzIdle == szList = <<>> /\ szOut = NoSerialized

NoRpcConfig == RpcConfig(FALSE, FALSE, FALSE, FALSE, {}, FALSE, {}, "undefined")

NoVerdict == [called |-> FALSE, resolverName |-> "", level |-> "", result |-> FALSE]

RlIdle == rlConfig = NoRpcConfig /\ rlOut = NoVerdict

NoAttempt ==
  [tried |-> FALSE, this |-> CodeNode(<<>>), e |-> CodeNode(<<>>),
   ok |-> FALSE, node |-> CodeNode(<<>>)]

FgIdle == fgA = CodeNode(<<>>) /\ fgLast = NoAttempt

NoOp == [receiver |-> "none", op |-> "none"]

OwIdle ==
  /\ owHeap = <<>> /\ owChildren = [l \in {"A", "B"} |-> <<>>]
  /\ owSpliced = FALSE /\ owLast = NoOp

PrIdle == prPc = "idle" /\ prText = <<>> /\ prMap = NoMap /\ prParsed = NoParse

NoStorageCall ==
  [op |-> "none", handle |-> "none", session |-> "none", dbOutcome |-> "none",
   outcome |-> "none", value |-> "undefined", thrown |-> "none"]

SsIdle == ssDb = <<>> /\ ssLast = NoStorageCall

NoRpcCall ==
  [handler |-> "none", request |-> RpcRequest("", "none", FALSE),
   response |-> RpcThrew("")]

RqIdle == rqResolver = "missing" /\ rqLast = NoRpcCall

(***************************************************************************)
(* Specification SpecParser: parse (text, map), then serialize the list    *)
(***************************************************************************)
PsInit ==
  /\ psPc = "start"
  /\ psText \in Texts
  /\ psTable \in Tables
  /\ psParsed = NoParse
  /\ psString = <<>>
  /\ psOut = NoOutput
  /\ VlqIdle /\ MgIdle /\ IdIdle /\ RsIdle /\ CcIdle /\ CsIdle /\ PxIdle /\ SzIdle /\ RlIdle /\ FgIdle /\ OwIdle /\ PrIdle /\ SsIdle /\ RqIdle

PsParse ==
  /\ psPc = "start"
  /\ psParsed' = fromStringWithSourceMap(psText, MapOf(psTable))
  /\ psPc' = "parsed"
  /\ UNCHANGED <<psText, psTable, psString, psOut, notPs>>

PsToString ==
  /\ psPc = "parsed"
  /\ psParsed.ok
  /\ psString' = SLM_toString(psParsed.children)
  /\ psPc' = "printed"
  /\ UNCHANGED <<psText, psTable, psParsed, psOut, notPs>>

PsToStringWithSourceMap ==
  /\ psPc = "printed"
  /\ psOut' = toStringWithSourceMap(psParsed.children)
  /\ psPc' = "serialized"
  /\ UNCHANGED <<psText, psTable, psParsed, psString, notPs>>

PsNext == PsParse \/ PsToString \/ PsToStringWithSourceMap

SpecParser == PsInit /\ [][PsNext]_vars

\* C2: the text of the parsed list is the generated text that was parsed
C2_ParserTextRoundTrip ==
  psPc \in {"printed", "serialized"} => psString = psText

\* C2 witness: a two-line text parsed with a single group, so the second
\* line comes from the trailing-lines path, after a mapped first line
C2_Witness ==
  /\ psPc = "printed"
  /\ getNumberOfLines(psText) = 1 /\ ~EndsWithNL(psText)
  /\ Len(psTable) = 1 /\ psTable[1] # <<>> /\ psTable[1][1].n = 4
  /\ Len(psParsed.children) = 2

\* the table points into the text: every group belongs to a generated line
\* and every segment starts at a character of that line
TableFitsText(text, table) ==
  LET c == Split(text, NL)
  IN /\ Len(table) <= Len(c)
     /\ \A i \in 1..Len(table) : \A k \in 1..Len(table[i]) : table[i][k].col < Len(c[i])

\* C3: for mappings that point into the text, the resolved table (generated
\* line, generated column) -> (source, original line, original column) of the
\* re-serialized map equals the resolved table of the mappings parsed
C3_ParserMapRoundTrip ==
  (psPc = "serialized" /\ TableFitsText(psText, psTable))
    => DecodeTable(psOut.map) = DecodeTable(MapOf(psTable))

\* the generated text before fragment k
TextBefore(list, k) == Flatten([i \in 1..(k - 1) |-> list[i].generatedCode])

\* the child of the parsed list that holds the character at 0-based pos
ChildAt(children, pos) ==
  CHOOSE k \in 1..Len(children) :
    Len(TextBefore(children, k)) <= pos /\ pos < Len(TextBefore(children, k + 1))

\* the original line child k gives to the character at pos: a SourceNode
\* counts on from its startingLine with every newline before the character
OriginalLineAt(children, k, pos) ==
  children[k].line
    + getNumberOfLines(SubstrTo(children[k].generatedCode, pos - Len(TextBefore(children, k))))

\* generated line (1-based) and column (0-based) of the character at pos
LineOfPos(text, pos) == getNumberOfLines(SubstrTo(text, pos)) + 1

ColumnOfPos(text, pos) == getUnfinishedLine(SubstrTo(text, pos))

HasMappedSegment(group) == \E k \in 1..Len(group) : group[k].n = 4

\* the segments of the group that govern column gc: those with the greatest
\* column not after gc
Governing(group, gc) ==
  {g \in {group[k] : k \in 1..Len(group)} :
     g.col <= gc /\ \A k \in 1..Len(group) : group[k].col <= gc => group[k].col <= g.col}

\* the first source-bearing segment of the group
FirstMapped(group) ==
  group[CHOOSE k \in 1..Len(group) : group[k].n = 4 /\ \A j \in 1..(k - 1) : group[j].n # 4]

\* the character at pos lies in a fragment mapped to segment g
MappedTo(children, pos, g) ==
  /\ children[ChildAt(children, pos)].kind # "CodeNode"
  /\ children[ChildAt(children, pos)].source = SourceNames[g.src + 1]
  /\ OriginalLineAt(children, ChildAt(children, pos), pos) = g.line

\* the characters of the lines whose group holds a source-bearing segment
MappedLineChars(text, table) ==
  {pos \in 0..(Len(text) - 1) :
     /\ LineOfPos(text, pos) <= Len(table)
     /\ HasMappedSegment(table[LineOfPos(text, pos)])}

\* C21: on a generated line whose group holds source-bearing segments,
\* every character governed by a mapped segment lies in a mapped fragment
\* with the source and original line of that segment, and every character
\* before the first segment or governed by an unmapped (1-field) segment
\* lies in a plain fragment
C21_ParserRunSplitting ==
  (psPc = "parsed" /\ psParsed.ok /\ TableFitsText(psText, psTable)) =>
    \A pos \in MappedLineChars(psText, psTable) :
      \A gov \in {Governing(psTable[LineOfPos(psText, pos)], ColumnOfPos(psText, pos))} :
        IF \E g \in gov : g.n = 4
        THEN \A g \in gov : MappedTo(psParsed.children, pos, g)
        ELSE psParsed.children[ChildAt(psParsed.children, pos)].kind = "CodeNode"

\* what the parser does instead: the whole line goes to one mapped fragment
\* with the source and original line of the first source-bearing segment
C21_WholeLineToFirstMappedSegment ==
  (psPc = "parsed" /\ psParsed.ok /\ TableFitsText(psText, psTable)) =>
    \A pos \in MappedLineChars(psText, psTable) :
      MappedTo(psParsed.children, pos, FirstMapped(psTable[LineOfPos(psText, pos)]))

\* the characters of the lines whose group is empty or absent
UnmappedLineChars(text, table) ==
  {pos \in 0..(Len(text) - 1) :
     \/ LineOfPos(text, pos) > Len(table)
     \/ table[LineOfPos(text, pos)] = <<>>}

\* the generated lines (1-based) that hold a character of such a line
UnmappedLines(text, table) == {LineOfPos(text, pos) : pos \in UnmappedLineChars(text, table)}

\* the line holds white space only
BlankLine(text, gl) ==
  \A pos \in 0..(Len(text) - 1) : LineOfPos(text, pos) = gl => text[pos + 1] \in {" ", NL}

\* C22: every generated line whose group is empty or absent lies in a plain
\* fragment of the parsed list, and the re-serialized map holds no source
\* mapping for it
C22_ParserUnmappedLines ==
  /\ (psPc = "parsed" /\ psParsed.ok) =>
       \A pos \in UnmappedLineChars(psText, psTable) :
         psParsed.children[ChildAt(psParsed.children, pos)].kind = "CodeNode"
  /\ psPc = "serialized" =>
       \A y \in DecodeTable(psOut.map) : y.gl \notin UnmappedLines(psText, psTable)

\* the same for the lines that hold a character other than white space
C22_NonBlankUnmappedLines ==
  /\ (psPc = "parsed" /\ psParsed.ok) =>
       \A pos \in UnmappedLineChars(psText, psTable) :
         ~BlankLine(psText, LineOfPos(psText, pos)) =>
           psParsed.children[ChildAt(psParsed.children, pos)].kind = "CodeNode"
  /\ psPc = "serialized" =>
       \A y \in DecodeTable(psOut.map) :
         y.gl \in UnmappedLines(psText, psTable) => BlankLine(psText, y.gl)

(***************************************************************************)
(* Specification SpecMerge: two adjacent fragments a, b are serialized as  *)
(* the list [a, b]; then a.merge(b) is called and, when it merges, the     *)
(* list [m] is serialized.                                                 *)
(***************************************************************************)
ALines == {1, 2}

BLines == {1, 2, 3, 4}

Originals == {"c1", "c2"}

NodesA ==
  {CodeNode(t) : t \in Texts}
    \cup {SingleLineNode(t, "s1", "c1", l) : t \in Texts, l \in ALines}
    \cup {SourceNode(t, "s1", "c1", l) : t \in Texts, l \in ALines}

NodesB ==
  {CodeNode(t) : t \in Texts}
    \cup {SingleLineNode(t, src, o, l) : t \in Texts, src \in {"s1", "s2"}, o \in Originals, l \in BLines}
    \cup {SourceNode(t, src, o, l) : t \in Texts, src \in {"s1", "s2"}, o \in Originals, l \in BLines}

\* every generated line that carries a mapping, with the source and the
\* original line it resolves to
LineTable(map) ==
  {[gl |-> x.gl, source |-> x.source, line |-> x.line] : x \in DecodeTable(map)}

MgInit ==
  /\ mgPc = "start"
  /\ mgA \in NodesA
  /\ mgB \in NodesB
  /\ mgMerged = NotMerged(CodeNode(<<>>))
  /\ mgPairOut = NoOutput
  /\ mgMergedOut = NoOutput
  /\ VlqIdle /\ PsIdle /\ IdIdle /\ RsIdle /\ CcIdle /\ CsIdle /\ PxIdle /\ SzIdle /\ RlIdle /\ FgIdle /\ OwIdle /\ PrIdle /\ SsIdle /\ RqIdle

MgSerializePair ==
  /\ mgPc = "start"
  /\ mgPairOut' = toStringWithSourceMap(<<mgA, mgB>>)
  /\ mgPc' = "pair"
  /\ UNCHANGED <<mgA, mgB, mgMerged, mgMergedOut, notMg>>

\* a.merge(b): when it returns this, a itself has been mutated
MgMerge ==
  /\ mgPc = "pair"
  /\ mgMerged' = merge(mgA, mgB)
  /\ mgA' = IF mgMerged'.ok /\ mgMerged'.node.kind = mgA.kind THEN mgMerged'.node ELSE mgA
  /\ mgPc' = "merged"
  /\ UNCHANGED <<mgB, mgPairOut, mgMergedOut, notMg>>

MgSerializeMerged ==
  /\ mgPc = "merged"
  /\ mgMerged.ok
  /\ mgMergedOut' = toStringWithSourceMap(<<mgMerged.node>>)
  /\ mgPc' = "done"
  /\ UNCHANGED <<mgA, mgB, mgMerged, mgPairOut, notMg>>

MgNext == MgSerializePair \/ MgMerge \/ MgSerializeMerged

SpecMerge == MgInit /\ [][MgNext]_vars

\* C4: when a.merge(b) merges, the merged fragment has the text of a followed
\* by the text of b, and serializing [m] resolves every generated line to the
\* same source and original line as serializing [a, b]
C4_MergeTransparency ==
  mgPc = "done" =>
    /\ mgMergedOut.source = mgPairOut.source
    /\ LineTable(mgMergedOut.map) = LineTable(mgPairOut.map)

(***************************************************************************)
(* Specification SpecIdem: a fragment list with one fragment per generated *)
(* line is serialized, the {source, map} pair is parsed back and the       *)
(* parsed list is serialized again.                                        *)
(***************************************************************************)
\* texts of exactly one generated line
LineTexts == {t \in Texts : Len(t) <= 2 /\ EndsWithNL(t) /\ getNumberOfLines(t) = 1}

ContentOf(src) == IF src = "s1" THEN "c1" ELSE "c2"

LineNodes ==
  {CodeNode(t) : t \in LineTexts}
    \cup {SingleLineNode(t, src, ContentOf(src), l) : t \in LineTexts, src \in {"s1", "s2"}, l \in {1, 2, 3}}
    \cup {SourceNode(t, src, ContentOf(src), l) : t \in LineTexts, src \in {"s1", "s2"}, l \in {1, 2, 3}}

IdInit ==
  /\ idPc = "start"
  /\ idList \in SeqsUpTo(LineNodes, MaxFrags)
  /\ idOut1 = NoOutput
  /\ idParsed = NoParse
  /\ idOut2 = NoOutput
  /\ VlqIdle /\ PsIdle /\ MgIdle /\ RsIdle /\ CcIdle /\ CsIdle /\ PxIdle /\ SzIdle /\ RlIdle /\ FgIdle /\ OwIdle /\ PrIdle /\ SsIdle /\ RqIdle

IdSerialize ==
  /\ idPc = "start"
  /\ idOut1' = toStringWithSourceMap(idList)
  /\ idPc' = "serialized"
  /\ UNCHANGED <<idList, idParsed, idOut2, notId>>

IdParse ==
  /\ idPc = "serialized"
  /\ idParsed' = fromStringWithSourceMap(idOut1.source, idOut1.map)
  /\ idPc' = "parsed"
  /\ UNCHANGED <<idList, idOut1, idOut2, notId>>

IdReserialize ==
  /\ idPc = "parsed"
  /\ idParsed.ok
  /\ idOut2' = toStringWithSourceMap(idParsed.children)
  /\ idPc' = "done"
  /\ UNCHANGED <<idList, idOut1, idParsed, notId>>

IdNext == IdSerialize \/ IdParse \/ IdReserialize

SpecIdem == IdInit /\ [][IdNext]_vars

\* C8: serializing, parsing back and serializing again gives the same
\* mappings string, character for character
C8_SerializeParseIdempotent ==
  idPc = "done" => idOut2.map.mappings = idOut1.map.mappings

(***************************************************************************)
(* Specification SpecReplace: a ReplaceSource over a text; replace and     *)
(* insert register replacements, source() sorts them and splices the text. *)
(* rsOut.n is the number of replacements source() was computed with.       *)
(***************************************************************************)
RsTexts == {<<"a", "b", "c">>, <<"a", NL, "b">>, <<"a", "b", NL>>, <<"a", "b">>}

RsContents == {<<>>, <<"X">>, <<"Y">>}

RsInit ==
  /\ rsText \in RsTexts
  /\ rsReplacements = <<>>
  /\ rsIsSorted = TRUE
  /\ rsOut = NoResult
  /\ rsBase = NoResult
  /\ rsMapOut = NoResult
  /\ VlqIdle /\ PsIdle /\ MgIdle /\ IdIdle /\ CcIdle /\ CsIdle /\ PxIdle /\ SzIdle /\ RlIdle /\ FgIdle /\ OwIdle /\ PrIdle /\ SsIdle /\ RqIdle

\* replace(start, end, content) with a non-empty range [start, end]
RsReplace ==
  /\ Len(rsReplacements) < MaxRepl
  /\ \E start \in 0..(Len(rsText) - 1) : \E end \in start..(Len(rsText) - 1) :
       \E content \in RsContents :
         rsReplacements' = Append(rsReplacements,
                                  Replacement(start, end, content, Len(rsReplacements)))
  /\ rsIsSorted' = FALSE
  /\ UNCHANGED <<rsText, rsOut, rsBase, rsMapOut, notRs>>

\* insert(pos, content): the zero-width replacement (pos, pos - 1)
RsInsert ==
  /\ Len(rsReplacements) < MaxRepl
  /\ \E pos \in 0..Len(rsText) : \E content \in RsContents \ {<<>>} :
       rsReplacements' = Append(rsReplacements,
                                Replacement(pos, pos - 1, content, Len(rsReplacements)))
  /\ rsIsSorted' = FALSE
  /\ UNCHANGED <<rsText, rsOut, rsBase, rsMapOut, notRs>>

\* source(): sorts _replacements in place and returns the spliced text
RsSource ==
  /\ rsReplacements' = SortedReplacements(rsReplacements, rsIsSorted)
  /\ rsIsSorted' = TRUE
  /\ rsOut' = [n |-> Len(rsReplacements),
               source |-> ReplaceString(rsText, rsReplacements'),
               map |-> NoMap]
  /\ UNCHANGED <<rsText, rsBase, rsMapOut, notRs>>

RsNext == RsReplace \/ RsInsert \/ RsSource

SpecReplace == RsInit /\ [][RsNext]_vars

\* the replacements in the order they were registered
ByInsertIndex(rs) ==
  [k \in 1..Len(rs) |-> rs[CHOOSE i \in 1..Len(rs) : rs[i].insertIndex = k - 1]]

IsInsert(r) == r.end = r.start - 1

IsRange(r) == r.start <= r.end

Overlap(r, q) == r.start <= q.end /\ q.start <= r.end

RangesDisjoint(rs) ==
  \A i, j \in 1..Len(rs) : (i # j /\ IsRange(rs[i]) /\ IsRange(rs[j])) => ~Overlap(rs[i], rs[j])

\* the contents inserted at position p, concatenated in registration order
RECURSIVE InsertedAt(_, _)
InsertedAt(reg, p) ==
  IF reg = <<>> THEN <<>>
  ELSE (IF IsInsert(Head(reg)) /\ Head(reg).start = p THEN Head(reg).content ELSE <<>>)
       \o InsertedAt(Tail(reg), p)

\* what position i of the original text contributes when every replacement
\* is applied to the original positions: the inserts at i, then the content
\* of the range starting at i, then the character unless a range covers it
PieceAt(text, reg, i) ==
  InsertedAt(reg, i)
    \o Flatten([k \in 1..Len(reg) |->
                  IF IsRange(reg[k]) /\ reg[k].start = i THEN reg[k].content ELSE <<>>])
    \o (IF i < Len(text) /\ \A k \in 1..Len(reg) : ~(IsRange(reg[k]) /\ reg[k].start <= i /\ i <= reg[k].end)
        THEN <<text[i + 1]>> ELSE <<>>)

AppliedToOriginal(text, reg) == Flatten([i \in 1..(Len(text) + 1) |-> PieceAt(text, reg, i - 1)])

IsSubstring(x, y) == \E k \in 0..(Len(y) - Len(x)) : SubSeq(y, k + 1, k + Len(x)) = x

RsCurrent == rsOut.n = Len(rsReplacements)

\* C5: one replace(start, end, content) with 0 <= start <= end < len gives
\* T[0..start) + content + T[end+1..); several pairwise non-overlapping
\* ranges give the text with each applied at its original position, in
\* whatever order they were registered
C5_InclusiveRangeReplacement ==
  (RsCurrent /\ \A k \in 1..Len(rsReplacements) : IsRange(rsReplacements[k])) =>
    /\ Len(rsReplacements) = 1 =>
         rsOut.source = SubstrTo(rsText, rsReplacements[1].start)
                          \o rsReplacements[1].content
                          \o SubstrFrom(rsText, rsReplacements[1].end + 1)
    /\ RangesDisjoint(rsReplacements) =>
         rsOut.source = AppliedToOriginal(rsText, ByInsertIndex(rsReplacements))

\* C5 witness: two disjoint ranges, the right one registered last, were applied
C5_Witness ==
  /\ RsCurrent /\ Len(rsReplacements) = 2
  /\ \A k \in 1..2 : IsRange(rsReplacements[k]) /\ rsReplacements[k].content # <<>>
  /\ RangesDisjoint(rsReplacements)
  /\ \E i, j \in 1..2 : /\ rsReplacements[i].insertIndex < rsReplacements[j].insertIndex
                        /\ rsReplacements[i].end < rsReplacements[j].start

SpContents == {<<"X">>, <<NL>>, <<"X", NL>>, <<NL, "X">>}

SpInit ==
  /\ rsText \in Texts
  /\ rsReplacements = <<>>
  /\ rsIsSorted = TRUE
  /\ rsOut = NoResult
  /\ rsBase = NoResult
  /\ rsMapOut = NoResult
  /\ VlqIdle /\ PsIdle /\ MgIdle /\ IdIdle /\ CcIdle /\ CsIdle /\ PxIdle /\ SzIdle /\ RlIdle /\ FgIdle /\ OwIdle /\ PrIdle /\ SsIdle /\ RqIdle

\* sourceAndMap({columns: false}) with no replacement registered: the
\* wrapped source's own sourceAndMap
SpBaseline ==
  /\ Len(rsReplacements) = 0
  /\ rsBase' = [n |-> 0] @@ getSourceAndMap(OriginalSource_listMap(rsText, "s1", "c1"))
  /\ UNCHANGED <<rsText, rsReplacements, rsIsSorted, rsOut, rsMapOut, notRs>>

SpInsert ==
  /\ Len(rsReplacements) = 0
  /\ \E pos \in 0..Len(rsText) : \E content \in SpContents :
       rsReplacements' = Append(rsReplacements,
                                Replacement(pos, pos - 1, content, Len(rsReplacements)))
  /\ rsIsSorted' = FALSE
  /\ UNCHANGED <<rsText, rsOut, rsBase, rsMapOut, notRs>>

\* sourceAndMap({columns: false}) with replacements: getSourceAndMap(this)
SpSourceAndMap ==
  /\ Len(rsReplacements) > 0
  /\ rsReplacements' = SortedReplacements(rsReplacements, rsIsSorted)
  /\ rsIsSorted' = TRUE
  /\ rsMapOut' = [n |-> Len(rsReplacements)]
                   @@ getSourceAndMap(ReplaceSource_listMap(
                        OriginalSource_listMap(rsText, "s1", "c1"), rsReplacements'))
  /\ UNCHANGED <<rsText, rsOut, rsBase, notRs>>

SpNext == SpBaseline \/ SpInsert \/ SpSourceAndMap

SpecSplice == SpInit /\ [][SpNext]_vars

\* C6: after insert(p, X) the text is T[0..p) + X + T[p..], and every
\* character of T, at its old position when before p and shifted by len(X)
\* otherwise, resolves in the line-level map to the source and original line
\* it resolved to before the insert
C6_ZeroWidthSplice ==
  (rsBase.n = 0 /\ rsMapOut.n = 1) =>
    LET p == rsReplacements[1].start
        X == rsReplacements[1].content
    IN /\ rsMapOut.source = SubstrTo(rsText, p) \o X \o SubstrFrom(rsText, p)
       /\ \A q \in 0..(Len(rsText) - 1) :
            ResolveChar(rsMapOut.map, rsMapOut.source, IF q < p THEN q ELSE q + Len(X))
              = ResolveChar(rsBase.map, rsText, q)

(***************************************************************************)
(* Specification SpecConcat: a ConcatSource built by add(item) calls       *)
(* interleaved with source(), size() and getChildren().  ccAdded records   *)
(* the texts of the items in the order they were added; ccOut.sourceN and  *)
(* ccOut.sizeN are the numbers of texts added when source() and size()     *)
(* were last answered.                                                     *)
(***************************************************************************)
CcTexts == {<<>>, <<"a">>, <<"b", "c">>}

CcItems == {StringChild(t) : t \in CcTexts} \cup {SourceChild(t) : t \in CcTexts}

\* the children a nested ConcatSource may hold: strings and sources before
\* its _optimize ran, sources and synthetic RawSources after
CcNested ==
  {<<StringChild(<<"a">>), SourceChild(<<"b", "c">>)>>,
   <<SyntheticRawSource(<<"a">>), SourceChild(<<"b", "c">>)>>,
   <<SourceChild(<<"b", "c">>), StringChild(<<"a">>)>>,
   <<SourceChild(<<"b", "c">>), SyntheticRawSource(<<"a">>)>>,
   <<SyntheticRawSource(<<"a">>)>>}

ChildTexts(children) == [k \in 1..Len(children) |-> children[k].text]

CcInit ==
  /\ ccChildren = <<>>
  /\ ccIsOptimized = TRUE
  /\ ccAdded = <<>>
  /\ ccOut = NoConcatOut
  /\ VlqIdle /\ PsIdle /\ MgIdle /\ IdIdle /\ RsIdle /\ CsIdle /\ PxIdle /\ SzIdle /\ RlIdle /\ FgIdle /\ OwIdle /\ PrIdle /\ SsIdle /\ RqIdle

\* add(e) for a string or a source that is no ConcatSource
CcAdd ==
  /\ Len(ccAdded) < MaxAdds
  /\ \E item \in CcItems :
       /\ ccChildren' = Append(ccChildren, item)
       /\ ccAdded' = Append(ccAdded, item.text)
  /\ ccIsOptimized' = FALSE
  /\ UNCHANGED <<ccOut, notCc>>

\* add(e) for a ConcatSource e: its children are pushed one by one
CcAddConcat ==
  /\ Len(ccAdded) < MaxAdds
  /\ \E nested \in CcNested :
       /\ ccChildren' = ccChildren \o nested
       /\ ccAdded' = ccAdded \o ChildTexts(nested)
  /\ ccIsOptimized' = FALSE
  /\ UNCHANGED <<ccOut, notCc>>

CcSource ==
  /\ ccChildren' = Optimized(ccChildren, ccIsOptimized)
  /\ ccIsOptimized' = TRUE
  /\ ccOut' = [ccOut EXCEPT !.sourceN = Len(ccAdded), !.source = ConcatSource_source(ccChildren')]
  /\ UNCHANGED <<ccAdded, notCc>>

CcSize ==
  /\ ccChildren' = Optimized(ccChildren, ccIsOptimized)
  /\ ccIsOptimized' = TRUE
  /\ ccOut' = [ccOut EXCEPT !.sizeN = Len(ccAdded), !.size = ConcatSource_size(ccChildren')]
  /\ UNCHANGED <<ccAdded, notCc>>

CcGetChildren ==
  /\ ccChildren' = Optimized(ccChildren, ccIsOptimized)
  /\ ccIsOptimized' = TRUE
  /\ UNCHANGED <<ccAdded, ccOut, notCc>>

CcNext == CcAdd \/ CcAddConcat \/ CcSource \/ CcSize \/ CcGetChildren

SpecConcat == CcInit /\ [][CcNext]_vars

RECURSIVE SumLen(_)
SumLen(texts) == IF texts = <<>> THEN 0 ELSE Len(Head(texts)) + SumLen(Tail(texts))

\* C9: the children always hold the added texts in order, nothing dropped,
\* duplicated or reordered; source() answers their concatenation and size()
\* the sum of their sizes
C9_ConcatTransparency ==
  /\ Flatten(ChildTexts(ccChildren)) = Flatten(ccAdded)
  /\ ccOut.sourceN = Len(ccAdded) => ccOut.source = Flatten(ccAdded)
  /\ ccOut.sizeN = Len(ccAdded) => ccOut.size = SumLen(ccAdded)

\* C9 witness: a string added after source() coalesced two strings into a
\* synthetic RawSource was coalesced with it, and source() answered again
C9_Witness ==
  /\ Len(ccAdded) = 3 /\ ccOut.sourceN = 3 /\ ccOut.sizeN = 2
  /\ Len(ccChildren) = 1 /\ ccChildren[1].synthetic
  /\ \A k \in 1..3 : ccAdded[k] # <<>>

(***************************************************************************)
(* Specification SpecCached: a CachedSource built without cached data on   *)
(* a wrapped source, then any calls of source(), buffer(), size(), map(e)  *)
(* and sourceAndMap(e).  csCachedSize is <<>> while undefined.  csComputed *)
(* counts, per key, the calls of the wrapped source's map / sourceAndMap;  *)
(* csAsked counts, per options value, the calls of map / sourceAndMap on   *)
(* the CachedSource; csOut is the last call and its result.                *)
(***************************************************************************)
CsTexts == {<<"a">>, <<TwoByteChar, NL, "a">>}

CsSources ==
  {RawSource(StringValue(t)) : t \in CsTexts}
    \cup {RawSource(BufferValue(Buffer_from(t))) : t \in CsTexts}
    \cup {OriginalSource(t, "s1") : t \in CsTexts}

CsOptions ==
  {Absent, Options(<<>>), Options(<<Field("columns", "false")>>),
   Options(<<Field("columns", "true")>>)}

CsKeys == {CachedMapsKey(e) : e \in CsOptions}

CsInit ==
  /\ csSource \in CsSources
  /\ csCachedSource = Undefined
  /\ csCachedBuffer = Undefined
  /\ csCachedSize = <<>>
  /\ csCachedMaps = <<>>
  /\ csComputed = [k \in CsKeys |-> 0]
  /\ csAsked = [e \in CsOptions |-> 0]
  /\ csOut = NoCall
  /\ VlqIdle /\ PsIdle /\ MgIdle /\ IdIdle /\ RsIdle /\ CcIdle /\ PxIdle /\ SzIdle /\ RlIdle /\ FgIdle /\ OwIdle /\ PrIdle /\ SsIdle /\ RqIdle

\* source(); _cachedSourceType is undefined without cached data, so the
\* branch that decodes _cachedBuffer is never taken
CsSource ==
  /\ csCachedSource' = IF csCachedSource # Undefined THEN csCachedSource
                       ELSE Source_source(csSource)
  /\ csOut' = [NoCall EXCEPT !.call = "source", !.source = csCachedSource']
  /\ UNCHANGED <<csSource, csCachedBuffer, csCachedSize, csCachedMaps, csComputed, csAsked, notCs>>

CsBuffer ==
  /\ csCachedBuffer' =
       IF csCachedBuffer # Undefined THEN csCachedBuffer
       ELSE IF csCachedSource # Undefined
       THEN IF Buffer_isBuffer(csCachedSource) THEN csCachedSource
            ELSE BufferValue(Buffer_from(csCachedSource.chars))
       ELSE Source_buffer(csSource)
  /\ csOut' = [NoCall EXCEPT !.call = "buffer", !.source = csCachedBuffer']
  /\ UNCHANGED <<csSource, csCachedSource, csCachedSize, csCachedMaps, csComputed, csAsked, notCs>>

CsSize ==
  /\ csCachedSize' =
       IF csCachedSize # <<>> THEN csCachedSize
       ELSE IF csCachedSource # Undefined THEN <<Buffer_byteLength(csCachedSource)>>
       ELSE IF csCachedBuffer # Undefined THEN <<Len(csCachedBuffer.bytes)>>
       ELSE <<Source_size(csSource)>>
  /\ csOut' = [NoCall EXCEPT !.call = "size", !.size = csCachedSize'[1]]
  /\ UNCHANGED <<csSource, csCachedSource, csCachedBuffer, csCachedMaps, csComputed, csAsked, notCs>>

\* sourceAndMap(e); an entry without map (bufferedMap only) needs cached data
CsSourceAndMap ==
  \E e \in CsOptions :
    /\ csAsked[e] < MaxAsk
    /\ csAsked' = [csAsked EXCEPT ![e] = @ + 1]
    /\ LET t == CachedMapsKey(e)
       IN IF csCachedSource # Undefined
          THEN IF t \notin DOMAIN csCachedMaps
               THEN \E s \in {Source_map(csSource, e)} :
                       /\ csCachedMaps' = CachedMaps_set(csCachedMaps, t, s)
                       /\ csComputed' = [csComputed EXCEPT ![t] = @ + 1]
                       /\ csOut' = [NoCall EXCEPT !.call = "sourceAndMap", !.opts = e,
                                                  !.source = csCachedSource, !.map = s]
                       /\ UNCHANGED csCachedSource
               ELSE /\ csOut' = [NoCall EXCEPT !.call = "sourceAndMap", !.opts = e,
                                               !.source = csCachedSource,
                                               !.map = csCachedMaps[t].map]
                    /\ UNCHANGED <<csCachedSource, csCachedMaps, csComputed>>
          ELSE IF t \in DOMAIN csCachedMaps
          THEN /\ csCachedSource' = Source_source(csSource)
               /\ csOut' = [NoCall EXCEPT !.call = "sourceAndMap", !.opts = e,
                                          !.source = csCachedSource',
                                          !.map = csCachedMaps[t].map]
               /\ UNCHANGED <<csCachedMaps, csComputed>>
          ELSE \E s \in {Source_sourceAndMap(csSource, e)} :
                  /\ csCachedSource' = s.source
                  /\ csCachedMaps' = CachedMaps_set(csCachedMaps, t, s.map)
                  /\ csComputed' = [csComputed EXCEPT ![t] = @ + 1]
                  /\ csOut' = [NoCall EXCEPT !.call = "sourceAndMap", !.opts = e,
                                             !.source = s.source, !.map = s.map]
    /\ UNCHANGED <<csSource, csCachedBuffer, csCachedSize, notCs>>

CsMap ==
  \E e \in CsOptions :
    /\ csAsked[e] < MaxAsk
    /\ csAsked' = [csAsked EXCEPT ![e] = @ + 1]
    /\ LET t == CachedMapsKey(e)
       IN IF t \in DOMAIN csCachedMaps
          THEN /\ csOut' = [NoCall EXCEPT !.call = "map", !.opts = e,
                                          !.map = csCachedMaps[t].map]
               /\ UNCHANGED <<csCachedMaps, csComputed>>
          ELSE \E n \in {Source_map(csSource, e)} :
                  /\ csCachedMaps' = CachedMaps_set(csCachedMaps, t, n)
                  /\ csComputed' = [csComputed EXCEPT ![t] = @ + 1]
                  /\ csOut' = [NoCall EXCEPT !.call = "map", !.opts = e, !.map = n]
    /\ UNCHANGED <<csSource, csCachedSource, csCachedBuffer, csCachedSize, notCs>>

CsNext == CsSource \/ CsBuffer \/ CsSize \/ CsSourceAndMap \/ CsMap

SpecCached == CsInit /\ [][CsNext]_vars

CsSameSourceAndMap(out, s) == out.source = s.source /\ out.map = s.map

\* the last call returned what the wrapped source returns for that call
CsAnswersAsWrapped ==
  /\ csOut.call = "source" => csOut.source = Source_source(csSource)
  /\ csOut.call = "buffer" => csOut.source = Source_buffer(csSource)
  /\ csOut.call = "size" => csOut.size = Source_size(csSource)
  /\ csOut.call = "map" => csOut.map = Source_map(csSource, csOut.opts)
  /\ csOut.call = "sourceAndMap" =>
       CsSameSourceAndMap(csOut, Source_sourceAndMap(csSource, csOut.opts))

\* the wrapped map computation ran at most once per key
CsComputedOnce == \A k \in DOMAIN csComputed : csComputed[k] <= 1

\* a step keeps every cached value it finds
CsKeepsEntries ==
  /\ csCachedSource # Undefined => csCachedSource' = csCachedSource
  /\ csCachedBuffer # Undefined => csCachedBuffer' = csCachedBuffer
  /\ csCachedSize # <<>> => csCachedSize' = csCachedSize
  /\ \A k \in DOMAIN csCachedMaps :
       k \in DOMAIN csCachedMaps' /\ csCachedMaps'[k] = csCachedMaps[k]

\* C10: every call on the CachedSource returns the wrapped source's value
\* for that call, the wrapped map computation runs at most once per JSON
\* key of the options (absent options using the key of {}), and no cached
\* entry is ever replaced or removed
C10_MemoizationCorrect ==
  /\ [](CsAnswersAsWrapped /\ CsComputedOnce)
  /\ [][CsKeepsEntries]_vars

\* C10 witness: an OriginalSource with a two-byte character was asked for its
\* map with absent options, with {} and with {columns: false}; the last call,
\* sourceAndMap({}), was answered from the entry of key {} computed once,
\* after source, buffer and size were cached
C10_Witness ==
  /\ csSource = OriginalSource(<<TwoByteChar, NL, "a">>, "s1")
  /\ csAsked[Absent] >= 1 /\ csAsked[Options(<<>>)] >= 1
  /\ csAsked[Options(<<Field("columns", "false")>>)] >= 1
  /\ csComputed[<<"{", "}">>] = 1
  /\ csOut.call = "sourceAndMap" /\ csOut.opts = Options(<<>>)
  /\ csCachedSource # Undefined /\ csCachedBuffer # Undefined /\ csCachedSize # <<>>

(***************************************************************************)
(* Specification SpecPrefix: a PrefixSource over a RawSource or an         *)
(* OriginalSource, asked for source() and sourceAndMap({columns: false})   *)
(***************************************************************************)
PxPrefixes == {<<>>, <<"p">>, <<"p", "q">>}

PxSources ==
  {RawSource(StringValue(t)) : t \in Texts} \cup {OriginalSource(t, "s1") : t \in Texts}

PxInit ==
  /\ pxSource \in PxSources
  /\ pxPrefix \in PxPrefixes
  /\ pxOut = NoText
  /\ pxMapOut = NoSourceAndMap
  /\ VlqIdle /\ PsIdle /\ MgIdle /\ IdIdle /\ RsIdle /\ CcIdle /\ CsIdle /\ SzIdle /\ RlIdle /\ FgIdle /\ OwIdle /\ PrIdle /\ SsIdle /\ RqIdle

PxSource ==
  /\ pxOut' = [done |-> TRUE, source |-> PrefixSource_source(pxSource, pxPrefix)]
  /\ UNCHANGED <<pxSource, pxPrefix, pxMapOut, notPx>>

PxSourceAndMap ==
  /\ \E r \in {PrefixSource_sourceAndMap(pxSource, pxPrefix)} :
       pxMapOut' = [done |-> TRUE, source |-> r.source.chars, map |-> r.map]
  /\ UNCHANGED <<pxSource, pxPrefix, pxOut, notPx>>

PxNext == PxSource \/ PxSourceAndMap

SpecPrefix == PxInit /\ [][PxNext]_vars

\* the text with the prefix at the start and after every newline that is
\* followed by at least one more character
PrefixedText(text, prefix) ==
  prefix \o Flatten([i \in 1..Len(text) |->
                       IF i > 1 /\ text[i - 1] = NL THEN prefix \o <<text[i]>>
                       ELSE <<text[i]>>])

\* C11: source() is the wrapped text with the prefix at the start and after
\* every newline followed by a character, and the text of
\* sourceAndMap({columns: false}) equals source()
C11_PrefixFormsAgree ==
  /\ pxOut.done => pxOut.source = PrefixedText(pxSource.value.chars, pxPrefix)
  /\ (pxOut.done /\ pxMapOut.done) => pxMapOut.source = pxOut.source

\* the same for a wrapped source that is not empty
C11_NonEmptyFormsAgree ==
  pxSource.value.chars # <<>> => C11_PrefixFormsAgree

(***************************************************************************)
(* Specification SpecSerialize: a SourceListMap receives constructed       *)
(* fragments one by one (add(node) pushes the node) and is serialized with *)
(* toStringWithSourceMap, each time with a fresh MappingsContext.          *)
(* szOut.n is the length of the list when it was last serialized.          *)
(***************************************************************************)
SzTexts == {<<>>, <<"a">>, <<NL>>, <<"a", NL>>, <<NL, "a">>}

\* (source, originalSource, line) of the mapped fragments; the original text
\* is a non-empty string, the empty string or absent
SzOrigins ==
  {<<"s1", "c1", 1>>, <<"s1", "c1", 2>>, <<"s1", "", 1>>, <<"s2", "undefined", 1>>}

SzInit ==
  /\ szList = <<>>
  /\ szOut = NoSerialized
  /\ VlqIdle /\ PsIdle /\ MgIdle /\ IdIdle /\ RsIdle /\ CcIdle /\ CsIdle /\ PxIdle /\ RlIdle /\ FgIdle /\ OwIdle /\ PrIdle /\ SsIdle /\ RqIdle

\* add(new CodeNode(t))
SzAddCodeNode ==
  /\ Len(szList) < MaxFrags
  /\ \E t \in SzTexts : szList' = Append(szList, CodeNode(t))
  /\ UNCHANGED <<szOut, notSz>>

\* add(new SingleLineNode(t, source, originalSource, line))
SzAddSingleLineNode ==
  /\ Len(szList) < MaxFrags
  /\ \E t \in SzTexts, o \in SzOrigins :
       szList' = Append(szList, SingleLineNode(t, o[1], o[2], o[3]))
  /\ UNCHANGED <<szOut, notSz>>

\* add(new SourceNode(t, source, originalSource, startingLine))
SzAddSourceNode ==
  /\ Len(szList) < MaxFrags
  /\ \E t \in SzTexts, o \in SzOrigins :
       szList' = Append(szList, SourceNode(t, o[1], o[2], o[3]))
  /\ UNCHANGED <<szOut, notSz>>

SzSerialize ==
  /\ \E r \in {toStringWithSourceMap(szList)} :
       szOut' = [n |-> Len(szList), source |-> r.source, map |-> r.map]
  /\ UNCHANGED <<szList, notSz>>

SzNext == SzAddCodeNode \/ SzAddSingleLineNode \/ SzAddSourceNode \/ SzSerialize

SpecSerialize == SzInit /\ [][SzNext]_vars

\* szOut is the serialization of the current list
SzCurrent == szOut.n = Len(szList)

IsMapped(node) == node.kind # "CodeNode" /\ node.generatedCode # <<>>

\* generated line (1-based) and column (0-based) where fragment k begins
StartLine(list, k) == getNumberOfLines(TextBefore(list, k)) + 1

StartColumn(list, k) == getUnfinishedLine(TextBefore(list, k))

\* the 0-based lines of fragment k that hold at least one of its characters
LinesOf(node) ==
  0..(getNumberOfLines(node.generatedCode)
        - (IF EndsWithNL(node.generatedCode) THEN 1 ELSE 0))

\* the generated positions at which the mapped fragments put their lines
MappedPositions(list) ==
  UNION {{<<StartLine(list, k) + j, IF j = 0 THEN StartColumn(list, k) ELSE 0>> :
            j \in LinesOf(list[k])} : k \in {i \in 1..Len(list) : IsMapped(list[i])}}

\* C12: the source is the concatenation of the fragment texts, every
\* non-empty mapped fragment has a mapped segment at the generated line and
\* column where its text begins, and every mapped segment sits at the
\* beginning of a mapped fragment or of one of its following lines (so a
\* plain "a" followed by a mapped "a" gives exactly one mapped segment, at
\* generated column 1)
C12_GeneratedColumn ==
  SzCurrent =>
    /\ szOut.source = TextBefore(szList, Len(szList) + 1)
    /\ \A k \in 1..Len(szList) :
         IsMapped(szList[k]) =>
           \E y \in DecodeTable(szOut.map) :
             y.gl = StartLine(szList, k) /\ y.gc = StartColumn(szList, k)
    /\ {<<y.gl, y.gc>> : y \in DecodeTable(szOut.map)} = MappedPositions(szList)

\* C12 witness: plain "a" followed by "a" mapped to s1 line 1 was serialized
\* to source "aa" with its one mapped segment at generated column 1
C12_Witness ==
  /\ szList = <<CodeNode(<<"a">>), SourceNode(<<"a">>, "s1", "c1", 1)>>
  /\ SzCurrent
  /\ szOut.source = <<"a", "a">>
  /\ DecodeTable(szOut.map) = {[gl |-> 1, gc |-> 1, source |-> "s1", line |-> 1, ocol |-> 0]}

\* the original line fragment node gives to its 0-based line j
OriginalLineOf(node, j) == IF node.kind = "SourceNode" THEN node.line + j ELSE node.line

\* C13: every generated line of a mapped fragment resolves to the
\* fragment's source at column 0, line startingLine + k for the k-th line
\* of a MappedBlock and originalLine for every line of a MappedLine
C13_OriginalLine ==
  SzCurrent =>
    \A k \in 1..Len(szList) :
      IsMapped(szList[k]) =>
        \A j \in LinesOf(szList[k]) :
          [gl |-> StartLine(szList, k) + j,
           gc |-> IF j = 0 THEN StartColumn(szList, k) ELSE 0,
           source |-> szList[k].source,
           line |-> OriginalLineOf(szList[k], j),
           ocol |-> 0] \in DecodeTable(szOut.map)

\* C13 witness: two lines tagged s1 lines 1 and 2, as two MappedLines or as
\* one MappedBlock, were serialized to "AAAA;AACA" with sources [s1]
C13_Witness ==
  /\ \/ szList = <<SingleLineNode(<<"a", NL>>, "s1", "c1", 1), SingleLineNode(<<"a">>, "s1", "c1", 2)>>
     \/ szList = <<SourceNode(<<NL, "a">>, "s1", "c1", 1)>>
  /\ SzCurrent
  /\ szOut.map.mappings = <<"A", "A", "A", "A", ";", "A", "A", "C", "A">>
  /\ szOut.map.sources = <<"s1">>

\* the texts of the segments of a mappings string: the groups between ";",
\* each split at ","; an empty group has no segment
SegmentTexts(mappings) ==
  UNION {{Split(g, ",")[i] : i \in 1..Len(Split(g, ","))} :
           g \in {Split(mappings, ";")[k] : k \in {j \in 1..Len(Split(mappings, ";")) :
                                                    Split(mappings, ";")[j] # <<>>}}}

\* a segment text made of exactly 1 or exactly 4 VLQ fields
IsSegment(txt) ==
  /\ txt # <<>>
  /\ \A i \in 1..Len(txt) : IsBase64Digit(txt[i])
  /\ Len(DecodeFields(txt)) \in {1, 4}

\* C14: every segment of every group of the emitted mappings consists of
\* exactly 1 or exactly 4 VLQ fields; no segment is empty
C14_WireFormatWellFormed ==
  SzCurrent => \A txt \in SegmentTexts(szOut.map.mappings) : IsSegment(txt)

\* the same when no mapped fragment begins on the first generated line
\* after plain text only
C14_WellFormedAfterFinishedLine ==
  (SzCurrent /\ ~(\E k \in 1..Len(szList) :
                    /\ IsMapped(szList[k])
                    /\ StartLine(szList, k) = 1 /\ StartColumn(szList, k) > 0
                    /\ \A i \in 1..(k - 1) : ~IsMapped(szList[i])))
    => \A txt \in SegmentTexts(szOut.map.mappings) : IsSegment(txt)

\* C20: the map holds a sourcesContent array only if a serialized mapped
\* fragment supplied a non-empty original text
C20_SourcesContentInclusion ==
  (SzCurrent /\ szOut.map.hasSourcesContent) =>
    \E k \in 1..Len(szList) :
      /\ IsMapped(szList[k])
      /\ szList[k].originalSource \notin {"undefined", "null", ""}

\* the number of occurrences of ch in the text s
CountOf(s, ch) == Cardinality({i \in 1..Len(s) : s[i] = ch})

\* C25: the number of ";" in the emitted mappings equals the number of
\* newline characters in the concatenated generated text
C25_LineGroupCount ==
  SzCurrent =>
    CountOf(szOut.map.mappings, ";") = getNumberOfLines(TextBefore(szList, Len(szList) + 1))

\* C25 witness: a plain, a MappedLine and a MappedBlock fragment holding
\* three newlines between them were serialized to three ";"
C25_Witness ==
  /\ SzCurrent
  /\ {szList[i].kind : i \in 1..Len(szList)} = {"CodeNode", "SingleLineNode", "SourceNode"}
  /\ getNumberOfLines(szOut.source) = 3
  /\ CountOf(szOut.map.mappings, ";") = 3

(***************************************************************************)
(* Specification SpecRpcLog: rpcHandler(config) is built with any logging  *)
(* configuration and isBlitzRPCVerbose is asked for resolver names and     *)
(* levels, as invokeResolver does.                                         *)
(***************************************************************************)
ResolverNames == {"getUser", "getUsers"}

Levels == {"info", "debug"}

RpcConfigs ==
  {NoRpcConfig}
    \cup {RpcConfig(TRUE, hv, hv /\ v, ad, IF ad THEN al ELSE {}, bd, IF bd THEN bl ELSE {}, dl) :
            hv \in BOOLEAN, v \in BOOLEAN, ad \in BOOLEAN, al \in SUBSET ResolverNames,
            bd \in BOOLEAN, bl \in SUBSET ResolverNames, dl \in {"undefined"} \cup Levels}

RlInit ==
  /\ rlConfig \in RpcConfigs
  /\ rlOut = NoVerdict
  /\ VlqIdle /\ PsIdle /\ MgIdle /\ IdIdle /\ RsIdle /\ CcIdle /\ CsIdle /\ PxIdle /\ SzIdle /\ FgIdle /\ OwIdle /\ PrIdle /\ SsIdle /\ RqIdle

RlIsVerbose ==
  /\ \E resolverName \in ResolverNames, level \in Levels :
       rlOut' = [called |-> TRUE, resolverName |-> resolverName, level |-> level,
                 result |-> isBlitzRPCVerbose(resolverName, rlConfig, level)]
  /\ UNCHANGED <<rlConfig, notRl>>

RlNext == RlIsVerbose

SpecRpcLog == RlInit /\ [][RlNext]_vars

\* C15: with allowList defined, isBlitzRPCVerbose returns true only for
\* resolver names contained in allowList
C15_AllowListOnly ==
  (rlOut.called /\ rlConfig.logging /\ rlConfig.allowDefined /\ rlOut.result)
    => rlOut.resolverName \in rlConfig.allowList

\* the same when verbose is set and blockList is not defined
C15_AllowListOnlyWithoutBlockList ==
  (rlOut.called /\ rlConfig.logging /\ rlConfig.allowDefined /\ rlOut.result
     /\ rlConfig.hasVerbose /\ ~rlConfig.blockDefined)
    => rlOut.resolverName \in rlConfig.allowList

(***************************************************************************)
(* Specification SpecFragment: a mapped fragment a.  a.merge(x) is called  *)
(* with constructed fragments x, the list entry a being replaced by the    *)
(* result when the merge succeeds (as SourceListMap.mapGeneratedCode and   *)
(* the parser do); a SourceNode a receives addGeneratedCode; a is replaced *)
(* by a fragment the parser built.  fgLast records the last merge call:    *)
(* the receiver before the call, the argument and the result.              *)
(***************************************************************************)
FgTexts == {<<>>, <<"a">>, <<NL>>, <<"a", NL>>}

FgOrigins == {<<"s1", "c1">>, <<"s1", "c2">>, <<"s2", "c2">>}

FgLines == {1, 2}

FgNodes ==
  {SingleLineNode(t, o[1], o[2], l) : t \in FgTexts, o \in FgOrigins, l \in FgLines}
    \cup {SourceNode(t, o[1], o[2], l) : t \in FgTexts, o \in FgOrigins, l \in FgLines}

\* inputs of the parser: texts and segment tables
FgParseTexts == {<<"a", NL>>, <<"a", NL, NL>>, <<"a", NL, "a">>}

FgParseTables ==
  {<<<<Seg4(0, 0, 1, 0)>>>>, <<<<Seg4(0, 0, 1, 0)>>, <<Seg4(0, 0, 2, 0)>>>>,
   <<<<Seg4(0, 0, 1, 0)>>, <<>>>>}

FgInit ==
  /\ fgA \in FgNodes
  /\ fgLast = NoAttempt
  /\ VlqIdle /\ PsIdle /\ MgIdle /\ IdIdle /\ RsIdle /\ CcIdle /\ CsIdle /\ PxIdle /\ SzIdle /\ RlIdle /\ OwIdle /\ PrIdle /\ SsIdle /\ RqIdle

\* a.merge(x) for a constructed fragment x
FgMerge ==
  /\ \E x \in FgNodes :
       /\ Len(fgA.generatedCode) + Len(x.generatedCode) <= MaxNodeLen
       /\ \E r \in {merge(fgA, x)} :
            /\ fgA' = r.node
            /\ fgLast' = [tried |-> TRUE, this |-> fgA, e |-> x, ok |-> r.ok, node |-> r.node]
  /\ UNCHANGED notFg

\* a.addGeneratedCode(e) on a SourceNode
FgAddGeneratedCode ==
  /\ fgA.kind = "SourceNode"
  /\ \E e \in FgTexts :
       /\ Len(fgA.generatedCode) + Len(e) <= MaxNodeLen
       /\ fgA' = addGeneratedCode(fgA, e)
  /\ UNCHANGED <<fgLast, notFg>>

\* a becomes a mapped fragment built by fromStringWithSourceMap
FgParse ==
  /\ \E t \in FgParseTexts, table \in FgParseTables :
       \E p \in {fromStringWithSourceMap(t, MapOf(table))} :
         /\ p.ok
         /\ \E i \in 1..Len(p.children) :
              /\ p.children[i].kind # "CodeNode"
              /\ fgA' = p.children[i]
  /\ UNCHANGED <<fgLast, notFg>>

FgNext == FgMerge \/ FgAddGeneratedCode \/ FgParse

SpecFragment == FgInit /\ [][FgNext]_vars

\* lineCount is the number of newlines of the text and endsWithNewline
\* tells whether its last character is a newline
FragmentConsistent(node) ==
  /\ node.numberOfLines = getNumberOfLines(node.generatedCode)
  /\ node.endsWithNewLine = EndsWithNL(node.generatedCode)

\* C16: every mapped fragment reachable by construction, merge,
\* addGeneratedCode and parser steps has lineCount equal to the number of
\* newlines of its text and endsWithNewline true iff its last character is
\* a newline
C16_FragmentInvariant == FragmentConsistent(fgA)

\* the conditions of the MappedBlock absorption rule for block b and x
SameSource(a, b) == a.source = b.source

SameOriginalSource(a, b) == a.originalSource = b.originalSource

Contiguous(b, x) ==
  /\ EndsWithNL(b.generatedCode)
  /\ x.line = b.line + getNumberOfLines(b.generatedCode)
  /\ x.kind = "SingleLineNode" => getNumberOfLines(x.generatedCode) <= 1

\* C18: SourceNode.merge(x) returns a merged block only if x has the same
\* sourceId and the same originalSource, the block's text ends with a
\* newline and x's original line is startingLine + lineCount (with
\* x.lineCount <= 1 for a SingleLineNode)
C18_BlockAbsorptionRule ==
  (fgLast.tried /\ fgLast.this.kind = "SourceNode" /\ fgLast.ok) =>
    /\ SameSource(fgLast.this, fgLast.e)
    /\ SameOriginalSource(fgLast.this, fgLast.e)
    /\ Contiguous(fgLast.this, fgLast.e)

\* the rule without the comparison of originalSource
C18_BlockAbsorptionApartFromOriginalSource ==
  (fgLast.tried /\ fgLast.this.kind = "SourceNode" /\ fgLast.ok) =>
    /\ SameSource(fgLast.this, fgLast.e)
    /\ Contiguous(fgLast.this, fgLast.e)

\* the two cases of the MappedLine pair rule
SameLinePair(a, b) ==
  SameSource(a, b) /\ SameOriginalSource(a, b) /\ a.line = b.line

ConsecutiveLinePair(a, b) ==
  /\ SameSource(a, b) /\ SameOriginalSource(a, b) /\ a.line + 1 = b.line
  /\ EndsWithNL(a.generatedCode)
  /\ getNumberOfLines(a.generatedCode) = 1
  /\ getNumberOfLines(b.generatedCode) <= 1

PairRule(a, b, ok, node) ==
  /\ ok <=> (SameLinePair(a, b) \/ ConsecutiveLinePair(a, b))
  /\ (ok /\ SameLinePair(a, b)) =>
       /\ node.kind = "SingleLineNode" /\ node.line = a.line
       /\ node.generatedCode = a.generatedCode \o b.generatedCode
  /\ (ok /\ ~SameLinePair(a, b)) =>
       /\ node.kind = "SourceNode" /\ node.line = a.line
       /\ node.generatedCode = a.generatedCode \o b.generatedCode
  /\ ~ok => node = a

\* C19: a.merge(b) on two SingleLineNodes succeeds exactly in the same-line
\* case (giving a MappedLine with the concatenated text) and in the
\* consecutive-line case (giving a MappedBlock starting at a's line);
\* otherwise it is not mergeable and a is unchanged
C19_LinePairRule ==
  (fgLast.tried /\ fgLast.this.kind = "SingleLineNode" /\ fgLast.e.kind = "SingleLineNode")
    => PairRule(fgLast.this, fgLast.e, fgLast.ok, fgLast.node)

\* the pair rule for a receiver whose derived fields agree with its text
C19_LinePairRuleOnConsistent ==
  (fgLast.tried /\ fgLast.this.kind = "SingleLineNode" /\ fgLast.e.kind = "SingleLineNode"
     /\ FragmentConsistent(fgLast.this))
    => PairRule(fgLast.this, fgLast.e, fgLast.ok, fgLast.node)

(***************************************************************************)
(* Specification SpecOwnership: two SourceListMaps A and B over one heap   *)
(* of nodes; B takes A's children by add(A) or preprend(A), and both lists *)
(* go on receiving text and nodes.                                         *)
(***************************************************************************)
OwLists == {"A", "B"}

OwTexts == {<<"a">>, <<"b", NL>>}

OwOrigins == {<<"undefined", "undefined">>, <<"s1", "c1">>}

OwNodes == {CodeNode(e) : e \in OwTexts}
             \cup {SingleLineNode(e, "s1", "c1", 1) : e \in OwTexts}

OwInit ==
  /\ owHeap = <<>> /\ owChildren = [l \in OwLists |-> <<>>]
  /\ owSpliced = FALSE /\ owLast = NoOp
  /\ VlqIdle /\ PsIdle /\ MgIdle /\ IdIdle /\ RsIdle /\ CcIdle /\ CsIdle /\ PxIdle /\ SzIdle /\ RlIdle /\ FgIdle /\ PrIdle /\ SsIdle /\ RqIdle

\* the text the last node of refs would hold after add(e) without a source
FitsLast(refs, e) ==
  refs # <<>> => Len(owHeap[refs[Len(refs)]].generatedCode) + Len(e) <= MaxNodeLen

OwAddString ==
  /\ \E l \in OwLists, e \in OwTexts, o \in OwOrigins :
       /\ Len(owHeap) < MaxOwnNodes
       /\ FitsLast(owChildren[l], e)
       /\ \E r \in {SourceListMap_addString(owHeap, owChildren[l], e, o[1], o[2])} :
            /\ owHeap' = r.heap
            /\ owChildren' = [owChildren EXCEPT ![l] = r.refs]
       /\ owLast' = [receiver |-> l, op |-> "addString"]
  /\ UNCHANGED <<owSpliced, notOw>>

OwPreprendString ==
  /\ \E l \in OwLists, e \in OwTexts, o \in OwOrigins :
       /\ Len(owHeap) < MaxOwnNodes
       /\ \E r \in {SourceListMap_preprendString(owHeap, owChildren[l], e, o[1], o[2])} :
            /\ owHeap' = r.heap
            /\ owChildren' = [owChildren EXCEPT ![l] = r.refs]
       /\ owLast' = [receiver |-> l, op |-> "preprendString"]
  /\ UNCHANGED <<owSpliced, notOw>>

OwAddNode ==
  /\ \E l \in OwLists, node \in OwNodes :
       /\ Len(owHeap) < MaxOwnNodes
       /\ owHeap' = Alloc(owHeap, node)
       /\ owChildren' = [owChildren EXCEPT ![l] = SourceListMap_addNode(@, Len(owHeap) + 1)]
       /\ owLast' = [receiver |-> l, op |-> "addNode"]
  /\ UNCHANGED <<owSpliced, notOw>>

OwPreprendNode ==
  /\ \E l \in OwLists, node \in OwNodes :
       /\ Len(owHeap) < MaxOwnNodes
       /\ owHeap' = Alloc(owHeap, node)
       /\ owChildren' = [owChildren EXCEPT ![l] = SourceListMap_preprendNode(@, Len(owHeap) + 1)]
       /\ owLast' = [receiver |-> l, op |-> "preprendNode"]
  /\ UNCHANGED <<owSpliced, notOw>>

\* B.add(A)
OwAddList ==
  /\ owChildren["A"] # <<>>
  /\ Len(owChildren["B"]) + Len(owChildren["A"]) <= MaxOwnRefs
  /\ owChildren' = [owChildren EXCEPT !["B"] = SourceListMap_addList(@, owChildren["A"])]
  /\ owSpliced' = TRUE
  /\ owLast' = [receiver |-> "B", op |-> "addList"]
  /\ UNCHANGED <<owHeap, notOw>>

\* B.preprend(A)
OwPreprendList ==
  /\ owChildren["A"] # <<>>
  /\ Len(owChildren["B"]) + Len(owChildren["A"]) <= MaxOwnRefs
  /\ owChildren' = [owChildren EXCEPT !["B"] = SourceListMap_preprendList(@, owChildren["A"])]
  /\ owSpliced' = TRUE
  /\ owLast' = [receiver |-> "B", op |-> "preprendList"]
  /\ UNCHANGED <<owHeap, notOw>>

OwNext ==
  \/ OwAddString \/ OwPreprendString \/ OwAddNode \/ OwPreprendNode
  \/ OwAddList \/ OwPreprendList

SpecOwnership == OwInit /\ [][OwNext]_vars

\* A.toString() and A.toStringWithSourceMap()
OwText(heap, refs) == SLM_toString(Deref(heap, refs))

OwSerialized(heap, refs) == toStringWithSourceMap(Deref(heap, refs))

OwLeavesA ==
  /\ OwText(owHeap', owChildren'["A"]) = OwText(owHeap, owChildren["A"])
  /\ OwSerialized(owHeap', owChildren'["A"]) = OwSerialized(owHeap, owChildren["A"])

\* C17: once B has appended or prepended list A, every later append or
\* prepend of text, nodes or lists on B leaves A.toString() and A's
\* serialized map unchanged
C17_ExclusiveOwnership ==
  [][(owSpliced /\ owLast'.receiver = "B") => OwLeavesA]_vars

\* every operation on B other than add(string) leaves A as it was
C17_OnlyAddStringReachesA ==
  [][(owSpliced /\ owLast'.receiver = "B" /\ owLast'.op # "addString") => OwLeavesA]_vars

(***************************************************************************)
(* Specification SpecPaths: a ReplaceSource over an OriginalSource named   *)
(* "s1" receives replace and insert calls, and both source() and           *)
(* sourceAndMap({columns: false}) are asked for.                           *)
(***************************************************************************)
PaNext == RsReplace \/ RsInsert \/ RsSource \/ SpBaseline \/ SpSourceAndMap

SpecPaths == RsInit /\ [][PaNext]_vars

\* source() and sourceAndMap were both answered for the current replacements
PaBothCurrent ==
  /\ rsOut.n = Len(rsReplacements)
  /\ IF Len(rsReplacements) = 0 THEN rsBase.n = 0 ELSE rsMapOut.n = Len(rsReplacements)

PaListMapText == IF Len(rsReplacements) = 0 THEN rsBase.source ELSE rsMapOut.source

\* C26: for every wrapped text and every set of replace / insert calls,
\* overlapping and nested ranges included, the text of the fragment-list
\* path (the source of sourceAndMap({columns: false})) equals source()
C26_SplicePathAgreement ==
  PaBothCurrent => PaListMapText = rsOut.source

\* no insert falls inside a replaced range
NoInsertInsideRange(rs) ==
  \A i, j \in 1..Len(rs) :
    (IsInsert(rs[i]) /\ IsRange(rs[j])) => ~(rs[j].start < rs[i].start /\ rs[i].start <= rs[j].end)

\* the same for pairwise non-overlapping ranges with no insert inside one
C26_DisjointPathsAgree ==
  (PaBothCurrent /\ RangesDisjoint(rsReplacements) /\ NoInsertInsideRange(rsReplacements))
    => PaListMapText = rsOut.source

(***************************************************************************)
(* Specification SpecParserRaw: fromStringWithSourceMap on a text and a    *)
(* map whose mappings string is given as written, well-formed or not, and  *)
(* whose sources array has one or two entries.                             *)
(***************************************************************************)
\* segment texts: well-formed ones, ones whose source index leaves the
\* sources array, and ones with a character that is no base 64 digit or
\* with a last digit that announces a continuation ("g")
PrSegments ==
  { <<"A">>, <<"A", "A", "A", "A">>, <<"A", "A", "C", "A">>,
    <<"A", "C", "A", "A">>, <<"A", "E", "A", "A">>, <<"A", "D", "A", "A">>,
    <<"*">>, <<"g">>, <<"A", "*", "A", "A">>, <<"A", "g">>,
    <<"A", "A", "*", "A">>, <<"A", "A", "A", "*">>, <<"A", "A", "A", "g">> }

PrMappings ==
  {<<>>} \cup PrSegments
         \cup {a \o <<",">> \o b : a, b \in PrSegments}
         \cup {a \o <<";">> \o b : a, b \in PrSegments}

PrTexts == {<<"a">>, <<"a", NL, "a">>}

PrSources == {<<"s1">>, <<"s1", "s2">>}

PrInit ==
  /\ prPc = "start"
  /\ prText \in PrTexts
  /\ \E m \in PrMappings, srcs \in PrSources :
       prMap = [sources |-> srcs, hasSourcesContent |-> FALSE,
                sourcesContent |-> <<>>, mappings |-> m]
  /\ prParsed = NoParse
  /\ VlqIdle /\ PsIdle /\ MgIdle /\ IdIdle /\ RsIdle /\ CcIdle /\ CsIdle /\ PxIdle /\ SzIdle /\ RlIdle /\ FgIdle /\ OwIdle /\ SsIdle /\ RqIdle

PrParse ==
  /\ prPc = "start"
  /\ prParsed' = fromStringWithSourceMap(prText, prMap)
  /\ prPc' = "parsed"
  /\ UNCHANGED <<prText, prMap, notPr>>

PrNext == PrParse

SpecParserRaw == PrInit /\ [][PrNext]_vars

\* a segment text is a sequence of complete VLQ values: base 64 digits only,
\* the last one without the continuation bit
WellFormedVlq(txt) ==
  /\ \A i \in 1..Len(txt) : IsBase64Digit(txt[i])
  /\ txt # <<>> => base64_decode(txt[Len(txt)]) < VLQ_CONTINUATION_BIT

MalformedField(map) == \E txt \in SegmentTexts(map.mappings) : ~WellFormedVlq(txt)

\* a source-bearing segment whose accumulated source index is no index of sources
SourceOutOfBounds(map) ==
  /\ ~MalformedField(map)
  /\ \E y \in DecodeAll(map) : y.n = 4 /\ y.source = "undefined"

\* C23: the parser fails, returning no list, whenever a segment references
\* a source index outside the sources array and whenever a VLQ field of a
\* segment, the original-column field included, is malformed
C23_ParserFailure ==
  (prPc = "parsed" /\ (MalformedField(prMap) \/ SourceOutOfBounds(prMap))) => ~prParsed.ok

\* the parser never fails on a map all of whose fields are well-formed
C23_FailsOnlyOnMalformedField ==
  (prPc = "parsed" /\ ~prParsed.ok) => MalformedField(prMap)

(***************************************************************************)
(* Specification SpecSession: createSession, updateSession and             *)
(* deleteSession are called on a PrismaStorage; ssLast records the last    *)
(* call, how the client's call ended (dbOutcome) and how the storage       *)
(* method ended.                                                           *)
(***************************************************************************)
Handles == {"h1", "h2"}

SessionData == {"d1", "d2", "d3"}

SsInit ==
  /\ ssDb = [h \in Handles |-> NoRow]
  /\ ssLast = NoStorageCall
  /\ VlqIdle /\ PsIdle /\ MgIdle /\ IdIdle /\ RsIdle /\ CcIdle /\ CsIdle /\ PxIdle /\ SzIdle /\ RlIdle /\ FgIdle /\ OwIdle /\ PrIdle /\ RqIdle

SsRecord(op, handle, session, o, r) ==
  [op |-> op, handle |-> handle, session |-> session, dbOutcome |-> o,
   outcome |-> r.outcome, value |-> r.value, thrown |-> r.thrown]

SsCreateSession ==
  /\ \E h \in Handles, d \in SessionData : \E o \in db_session_create_outcomes(ssDb, h) :
       \E r \in {PrismaStorage_createSession(ssDb, h, d, o)} :
         /\ ssDb' = r.db
         /\ ssLast' = SsRecord("createSession", h, d, o, r)
  /\ UNCHANGED notSs

SsUpdateSession ==
  /\ \E h \in Handles, d \in SessionData : \E o \in db_session_update_outcomes(ssDb, h) :
       \E r \in {PrismaStorage_updateSession(ssDb, h, d, o)} :
         /\ ssDb' = r.db
         /\ ssLast' = SsRecord("updateSession", h, d, o, r)
  /\ UNCHANGED notSs

SsDeleteSession ==
  /\ \E h \in Handles : \E o \in db_session_delete_outcomes(ssDb, h) :
       \E r \in {PrismaStorage_deleteSession(ssDb, h, o)} :
         /\ ssDb' = r.db
         /\ ssLast' = SsRecord("deleteSession", h, "none", o, r)
  /\ UNCHANGED notSs

SsNext == SsCreateSession \/ SsUpdateSession \/ SsDeleteSession

SpecSession == SsInit /\ [][SsNext]_vars

\* C24: when the database update of updateSession fails with code P2016
\* the session is created in the database; any other error is rethrown
C24_SessionUpdateRecovery ==
  ssLast.op = "updateSession" =>
    /\ ssLast.dbOutcome = "P2016" => ssDb[ssLast.handle] # NoRow
    /\ ssLast.dbOutcome \notin {"ok", "P2016"} =>
         ssLast.outcome = "threw" /\ ssLast.thrown = ssLast.dbOutcome

\* the second half alone: every error other than P2016 reaches the caller,
\* and P2016 is swallowed with the table left as it was
C24_OtherErrorsRethrown ==
  ssLast.op = "updateSession" =>
    /\ ssLast.dbOutcome \notin {"ok", "P2016"} =>
         ssLast.outcome = "threw" /\ ssLast.thrown = ssLast.dbOutcome
    /\ ssLast.dbOutcome = "P2016" =>
         ssLast.outcome = "returned" /\ ssLast.value = "undefined" /\ ssDb[ssLast.handle] = NoRow

(***************************************************************************)
(* Specification SpecRpc: one resolver file is registered (or none) and    *)
(* requests of every method arrive at the two handlers.  A GET or HEAD     *)
(* request carries no body, a POST request carries a JSON object.          *)
(***************************************************************************)
RqMethods == {"POST", "GET", "HEAD", "PUT", "DELETE"}

RqBodies == {"none", "withParams", "withoutParams"}

RqFiles == {"missing", "noDefault", "unset", "POST", "GET"}

RqRequests ==
  {r \in {RpcRequest(m, b, q) : m \in RqMethods, b \in RqBodies, q \in BOOLEAN} :
     /\ r.method \in {"GET", "HEAD"} => r.body = "none"
     /\ r.method = "POST" => r.body # "none"}

RqInit ==
  /\ rqResolver \in RqFiles
  /\ rqLast = NoRpcCall
  /\ VlqIdle /\ PsIdle /\ MgIdle /\ IdIdle /\ RsIdle /\ CcIdle /\ CsIdle /\ PxIdle /\ SzIdle /\ RlIdle /\ FgIdle /\ OwIdle /\ PrIdle /\ SsIdle

RqRpcHandler ==
  /\ \E req \in RqRequests, resolves \in BOOLEAN :
       rqLast' = [handler |-> "rpcHandler", request |-> req,
                  response |-> rpcHandler(req, rqResolver, resolves)]
  /\ UNCHANGED <<rqResolver, notRq>>

RqRpcApiHandler ==
  /\ \E req \in RqRequests, resolves \in BOOLEAN :
       rqLast' = [handler |-> "rpcApiHandler", request |-> req,
                  response |-> rpcApiHandler(req, rqResolver, resolves)]
  /\ UNCHANGED <<rqResolver, notRq>>

RqNext == RqRpcHandler \/ RqRpcApiHandler

SpecRpc == RqInit /\ [][RqNext]_vars

RqHandled == rqLast.handler # "none"

ResolverLoads == loadResolver(rqResolver).ok

RejectedForParams(response) ==
  response.outcome = "responded" /\ response.status = 400 /\ response.message = MissingParams

\* the two halves of the missing-params rule for the last request
MissingParamsRule ==
  (rqLast.request.method = "POST" /\ ResolverLoads) =>
    /\ rqLast.request.body = "withoutParams" =>
         RejectedForParams(rqLast.response) /\ ~rqLast.response.executed
    /\ rqLast.request.body = "withParams" => ~RejectedForParams(rqLast.response)

\* C27: in both handlers a POST request whose body has no params key is
\* answered with status 400 and the missing-params message without
\* executing the resolver, and a POST request whose body has a params key
\* is never rejected with that error
C27_MissingParams == RqHandled => MissingParamsRule

\* the rule for rpcHandler alone
C27_MissingParamsInRpcHandler == rqLast.handler = "rpcHandler" => MissingParamsRule

\* the resolver runs only for POST, or for GET when its config says GET
ExecutedOnlyWhenAllowed ==
  rqLast.response.executed =>
    \/ rqLast.request.method = "POST"
    \/ rqLast.request.method = "GET" /\ rqResolver = "GET"

\* HEAD gets 200, every other method not allowed gets 404, without executing
StatusOfOtherMethods ==
  ResolverLoads =>
    /\ rqLast.request.method = "HEAD" =>
         rqLast.response = RpcResponded(200, "", FALSE)
    /\ (rqLast.request.method \notin {"POST", "HEAD"}
          /\ ~(rqLast.request.method = "GET" /\ rqResolver = "GET")) =>
         rqLast.response = RpcResponded(404, "", FALSE)

\* C28: in both handlers the resolver is executed only when the method is
\* POST, or GET with the resolver's config setting httpMethod to GET; a
\* HEAD request for an existing resolver gets status 200 and every other
\* method gets status 404, without executing the resolver
C28_MethodGating == RqHandled => (ExecutedOnlyWhenAllowed /\ StatusOfOtherMethods)

\* the execution half holds in both handlers
C28_ExecutedOnlyWhenAllowed == RqHandled => ExecutedOnlyWhenAllowed

\* the whole rule for rpcHandler, and for rpcApiHandler when the request
\* carries a body
C28_GatingWhenBodyIsRead ==
  (RqHandled /\ (rqLast.handler = "rpcApiHandler" => rqLast.request.body # "none"))
    => (ExecutedOnlyWhenAllowed /\ StatusOfOtherMethods)

(***************************************************************************)
(* Specification SpecVLQ: encode an integer, then decode the digits        *)
(***************************************************************************)
VlqInit ==
  /\ vlqPc = "start"
  /\ vlqN \in (-MaxVlq)..MaxVlq
  /\ vlqText = <<>>
  /\ vlqOut = NoDecode
  /\ PsIdle /\ MgIdle /\ IdIdle /\ RsIdle /\ CcIdle /\ CsIdle /\ PxIdle /\ SzIdle /\ RlIdle /\ FgIdle /\ OwIdle /\ PrIdle /\ SsIdle /\ RqIdle

VlqEncode ==
  /\ vlqPc = "start"
  /\ vlqText' = base64VLQ_encode(vlqN)
  /\ vlqPc' = "encoded"
  /\ UNCHANGED <<vlqN, vlqOut, notVlq>>

VlqDecode ==
  /\ vlqPc = "encoded"
  /\ vlqOut' = base64VLQ_decode(vlqText)
  /\ vlqPc' = "decoded"
  /\ UNCHANGED <<vlqN, vlqText, notVlq>>

VlqNext == VlqEncode \/ VlqDecode

SpecVLQ == VlqInit /\ [][VlqNext]_vars

\* C1: decoding the VLQ encoding of n yields n and leaves no remainder
C1_VlqRoundTrip ==
  vlqPc = "decoded" => (vlqOut.ok /\ vlqOut.value = vlqN /\ vlqOut.rest = <<>>)

\* C1 witness: a negative value needing three base64 digits was decoded
C1_Witness ==
  vlqPc = "decoded" /\ vlqN < -512 /\ Len(vlqText) = 3 /\ vlqOut.ok

====
